---- MODULE Spec2Model ----
(***************************************************************************)
(* Vaiage trip itinerary engine: RouteAgent (src/agents/route_agent.py)    *)
(* and the route step of TravelGraph (src/workflows/travel_graph.py).      *)
(*                                                                         *)
(* Units.  Distances are metres (the source works in kilometres as floats; *)
(* one kilometre is 1000 here).  Coordinates are whole degrees.  Durations *)
(* are quarter hours.  Money is in cents; a fuel price is in twentieths of  *)
(* a dollar per litre and a fuel efficiency in half litres per 100 km.     *)
(* Python lists are 0-based; sequences here are 1-based, so index i of the *)
(* source is index i+1 here.                                               *)
(***************************************************************************)
EXTENDS Integers, Sequences, FiniteSets, TLC

VARIABLES distances_cache, call, info_agent, state, threads, travel_graph

vars == <<distances_cache, call, info_agent, state, threads, travel_graph>>

(***************************************************************************)
(* Bounds of the exploration.                                              *)
(***************************************************************************)
\* longest attraction list handed to get_optimal_route
MaxSpots == 5

\* most day keys in a daily plan
MaxPlanDays == 2

\* most attraction names under one day key of a daily plan
MaxDayStops == 2

\* most travellers and most days of a trip
MaxPeople == 2

MaxTripDays == 2

\* longest budget text made of the characters of BudgetAlphabet
MaxBudgetLen == 4
\* calls are issued while the cache holds at most this many entries
MaxWarmKeys == 1

\* longest list of attractions without geodata handed to get_optimal_route
MaxGeoSpots == 3

\* threads that call _calculate_distance on one cache at the same time
MaxThreads == 2

(***************************************************************************)
(* Attraction records (information_agent.py:258-273): id is the place id,  *)
(* a string that may itself contain '_'.                                   *)
(***************************************************************************)
\* Python's None; a value that may be None is None or [some |-> value]
None == [none |-> TRUE]

Some(value) == [some |-> value]

\* line 265: 'location': {'lat': location_data.get('lat'), 'lng': ...}
Attr(id, name, lat, lng, dur, price) ==
    [id |-> id, name |-> name, location |-> [lat |-> Some(lat), lng |-> Some(lng)],
     estimated_duration |-> dur, price_level |-> price]

SpotA  == Attr("a",   "Alpha",   0, 0, 8, 0)
SpotAB == Attr("a_b", "Bravo",   1, 0, 12, 1)
SpotBC == Attr("b_c", "Charlie", 0, 2, 8, 2)
SpotC  == Attr("c",   "Delta",   1, 5, 24, 3)
SpotM  == Attr("m",   "Echo",    0, 4, 6, 4)

Catalogue == {SpotA, SpotAB, SpotBC, SpotC, SpotM}

\* six attractions along the equator, and two more elsewhere
LineX  == Attr("x",   "Xray",    0, 0, 8, 0)
LineP  == Attr("p",   "Papa",    0, 1, 8, 1)
LineQ  == Attr("q",   "Quebec",  0, 2, 8, 2)
LineR  == Attr("r",   "Romeo",   0, 3, 8, 2)
LineS  == Attr("s",   "Sierra",  0, 4, 8, 3)
LineYZ == Attr("y_z", "Yankee",  0, 5, 8, 4)
SpotXY == Attr("x_y", "Zulu",    1, 0, 8, 2)
SpotZ  == Attr("z",   "Zebra",   1, 6, 8, 2)

LongList == <<LineX, LineP, LineQ, LineR, LineS, LineYZ>>

\* attractions without geodata: a place whose details hold no geometry
\* (line 252 and line 265: lat and lng are both None), a record made
\* elsewhere with no location field, and one whose location has no lat
SpotNull == [id |-> "n", name |-> "November",
             location |-> [lat |-> None, lng |-> None],
             estimated_duration |-> 8, price_level |-> 2]

SpotBare == [id |-> "o", name |-> "Oscar", estimated_duration |-> 8, price_level |-> 2]

SpotNoLat == [id |-> "k", name |-> "Kilo", location |-> [lng |-> Some(3)],
              estimated_duration |-> 8, price_level |-> 2]

(***************************************************************************)
(* Small helpers.                                                          *)
(***************************************************************************)
Abs(x) == IF x < 0 THEN -x ELSE x

Range(s) == {s[i] : i \in DOMAIN s}


\* all sequences of pairwise different elements of S, of length lo..hi
DistinctSeqs(S, lo, hi) ==
    UNION {{s \in [1..n -> S] : \A i, j \in 1..n : i # j => s[i] # s[j]} : n \in lo..hi}

(***************************************************************************)
(* _calculate_distance, route_agent.py:136-166                             *)
(***************************************************************************)
\* R * c of the haversine formula (lines 151-161) for whole-degree
\* coordinates with latitude 0 or 1, in metres: the value of
\* 6371 * 2 * asin(sqrt(sin(dlat/2)^2 + cos(lat1) cos(lat2) sin(dlon/2)^2)).
HaversineTable ==
    [lats \in {<<0, 0>>, <<0, 1>>, <<1, 0>>, <<1, 1>>} |->
        CASE lats = <<0, 0>> -> <<0, 111195, 222390, 333585, 444780, 555975, 667170>>
          [] lats = <<1, 1>> -> <<0, 111178, 222356, 333534, 444712, 555890, 667068>>
          [] OTHER           -> <<111195, 157249, 248629, 351613, 458447, 566957, 676339>>]

haversine(lat1, lon1, lat2, lon2) ==
    LET dlon == lon2 - lon1
    IN  HaversineTable[<<lat1, lat2>>][Abs(dlon) + 1]

\* line 140: "return 1" (one kilometre) when a spot has no location
DefaultDistance == 1000

HasLocation(spot) == "location" \in DOMAIN spot

\* line 143: cache_key = f"{spot1['id']}_{spot2['id']}"
cache_key(spot1, spot2) == spot1.id \o "_" \o spot2.id

\* lines 148-149: spot["location"]["lat"] and ["lng"] raise KeyError when
\* the key is absent; line 154: math.radians(None) raises TypeError
coordinates_error(spot1, spot2) ==
    IF \E spot \in {spot1, spot2} : {"lat", "lng"} \ DOMAIN spot.location # {}
    THEN "KeyError"
    ELSE IF \E spot \in {spot1, spot2} : None \in {spot.location.lat, spot.location.lng}
    THEN "TypeError"
    ELSE "no"

\* returns what the call raised, the distance when it raised nothing, and
\* the cache after the call
calculate_distance(cache, spot1, spot2) ==
    IF ~HasLocation(spot1) \/ ~HasLocation(spot2)
    THEN [raised |-> "no", distance |-> DefaultDistance, cache |-> cache]
    ELSE LET key == cache_key(spot1, spot2)
         IN  IF key \in DOMAIN cache
             THEN [raised |-> "no", distance |-> cache[key], cache |-> cache]
             ELSE IF coordinates_error(spot1, spot2) # "no"
             THEN [raised |-> coordinates_error(spot1, spot2), cache |-> cache]
             ELSE LET distance == haversine(spot1.location.lat.some, spot1.location.lng.some,
                                            spot2.location.lat.some, spot2.location.lng.some)
                  IN  [raised |-> "no", distance |-> distance,
                       cache |-> [k \in DOMAIN cache \cup {key} |->
                                     IF k = key THEN distance ELSE cache[k]]]

(***************************************************************************)
(* _get_distance_matrix, route_agent.py:121-134                            *)
(***************************************************************************)
\* the (i, j) of the two nested loops, in loop order
RECURSIVE MatrixPairs(_, _, _)
MatrixPairs(n, i, j) ==
    IF i > n THEN <<>>
    ELSE IF j > n THEN MatrixPairs(n, i + 1, i + 2)
    ELSE <<(<<i, j>>)>> \o MatrixPairs(n, i, j + 1)

RECURSIVE FillMatrix(_, _, _, _)
FillMatrix(spots, pairs, matrix, cache) ==
    IF pairs = <<>> THEN [raised |-> "no", matrix |-> matrix, cache |-> cache]
    ELSE LET i == Head(pairs)[1]
             j == Head(pairs)[2]
             r == calculate_distance(cache, spots[i], spots[j])
             m == [matrix EXCEPT ![i][j] = r.distance, ![j][i] = r.distance]
         IN  IF r.raised # "no" THEN [raised |-> r.raised, cache |-> r.cache]
             ELSE FillMatrix(spots, Tail(pairs), m, r.cache)

get_distance_matrix(cache, spots) ==
    LET n == Len(spots)
    IN  FillMatrix(spots, MatrixPairs(n, 1, 2), [i \in 1..n |-> [j \in 1..n |-> 0]], cache)

(***************************************************************************)
(* _solve_tsp_brute_force, route_agent.py:168-183                          *)
(***************************************************************************)
Min(S) == CHOOSE x \in S : \A y \in S : x <= y

Max(S) == CHOOSE x \in S : \A y \in S : y <= x

PrefixAll(x, ps) == [k \in 1..Len(ps) |-> <<x>> \o ps[k]]

\* itertools.permutations(range(n)): all orders, lexicographically
RECURSIVE permutations(_)
RECURSIVE PermsStartingIn(_, _)
permutations(S) == IF S = {} THEN <<(<<>>)>> ELSE PermsStartingIn(S, S)
PermsStartingIn(S, R) ==
    IF R = {} THEN <<>>
    ELSE LET x == Min(R)
         IN  PrefixAll(x, permutations(S \ {x})) \o PermsStartingIn(S, R \ {x})

\* sum(distance_matrix[perm[i]][perm[i+1]]) over the legs i, i+1, ..., last-1
RECURSIVE sum_of_legs(_, _, _, _)
sum_of_legs(perm, distance_matrix, i, last) ==
    IF i >= last THEN 0
    ELSE distance_matrix[perm[i]][perm[i + 1]]
            + sum_of_legs(perm, distance_matrix, i + 1, last)

\* variant of path_distance that stops one leg early (range(n-2))
path_distance_short(perm, distance_matrix) ==
    sum_of_legs(perm, distance_matrix, 1, Len(perm) - 1)

\* line 176: sum(distance_matrix[perm[i]][perm[i+1]] for i in range(n-1))
path_distance(perm, distance_matrix) ==
    sum_of_legs(perm, distance_matrix, 1, Len(perm))

\* line 110: brute force up to this many spots
BruteForceLimit == 5

\* itertools.permutations(range(n)) for n = 1, 2, ... up to the longest list
PermutationsOfRange ==
    <<permutations(1..1), permutations(1..2), permutations(1..3),
      permutations(1..4), permutations(1..5), permutations(1..6)>>

\* line 170: best_distance = float('inf'), above every distance
Infinity == -1

\* variant of improves that also takes a permutation of equal distance
improves_or_ties(distance, best_distance) ==
    best_distance = Infinity \/ distance <= best_distance

\* line 178: if distance < best_distance
improves(distance, best_distance) ==
    best_distance = Infinity \/ distance < best_distance

\* Lines 170-180, given the distance computed for each permutation.  When
\* the loop reaches the k-th permutation, best_distance is float('inf')
\* or the least distance of the permutations before it, so the k-th
\* passes the test of line 178 when it passes it against inf and against
\* the distance of every permutation before it; it then replaces
\* best_order, and the loop ends with the last permutation that did.
last_update(perms, distance) ==
    perms[Max({k \in 1..Len(perms) :
                 /\ improves(distance[k], Infinity)
                 /\ \A j \in 1..(k - 1) : improves(distance[k], distance[j])})]

best_permutation(perms, distance_matrix) ==
    last_update(perms, [k \in 1..Len(perms) |-> path_distance(perms[k], distance_matrix)])

solve_tsp_brute_force(spots, distance_matrix) ==
    LET n == Len(spots)
        best_order == best_permutation(PermutationsOfRange[n], distance_matrix)
    IN  [i \in 1..n |-> spots[best_order[i]]]

(***************************************************************************)
(* _solve_tsp_approximate, route_agent.py:185-204.                         *)
(* nx.approximation.traveling_salesman_problem(G, cycle=True) on the       *)
(* complete graph G of the matrix: it builds the graph GG of all-pairs     *)
(* Dijkstra distances of G, takes a Hamiltonian cycle of GG (Christofides) *)
(* and replaces every edge (u, v) of that cycle by the Dijkstra path from  *)
(* u to v in G.  Which Hamiltonian cycle Christofides returns is left      *)
(* open here: any cyclic order, from any start.                            *)
(***************************************************************************)
\* the orders of the nodes 1..n
NodeOrders(n) == Range(PermutationsOfRange[n])

\* the paths of G that visit no node twice
SimplePaths(n) == {SubSeq(p, 1, k) : p \in NodeOrders(n), k \in 2..n}

\* Dijkstra from u relaxes every edge out of u first, and replaces a
\* recorded path only by a strictly shorter one: the edge (u, v) itself
\* stays the path unless some other path is strictly shorter.
dijkstra_paths(paths, distance_matrix, u, v) ==
    LET between == {p \in paths : p[1] = u /\ p[Len(p)] = v}
        best    == Min({path_distance(p, distance_matrix) : p \in between})
    IN  IF distance_matrix[u][v] = best THEN {<<u, v>>}
        ELSE {p \in between : path_distance(p, distance_matrix) = best}

\* path[u][v] of nx.all_pairs_dijkstra, as triples <<u, v, paths>>
all_pairs_dijkstra(n, distance_matrix) ==
    LET paths == SimplePaths(n)
    IN  {<<e[1], e[2], dijkstra_paths(paths, distance_matrix, e[1], e[2])>> :
            e \in {d \in (1..n) \X (1..n) : d[1] # d[2]}}

PathsBetween(path, u, v) == (CHOOSE t \in path : t[1] = u /\ t[2] = v)[3]

\* best_path.extend(path[u][v][:-1]) for u, v in pairwise(cycle); then
\* best_path.append(v)
RECURSIVE expand_cycle(_, _, _)
expand_cycle(path, cycle, k) ==
    IF k = Len(cycle) THEN {<<cycle[k]>>}
    ELSE {SubSeq(p, 1, Len(p) - 1) \o rest :
            p \in PathsBetween(path, cycle[k], cycle[k + 1]),
            rest \in expand_cycle(path, cycle, k + 1)}

hamiltonian_cycles(n) == {p \o <<p[1]>> : p \in NodeOrders(n)}

traveling_salesman_problem(n, distance_matrix) ==
    LET path == all_pairs_dijkstra(n, distance_matrix)
    IN  UNION {expand_cycle(path, cycle, 1) : cycle \in hamiltonian_cycles(n)}

\* the routes the call can return
solve_tsp_approximate(spots, distance_matrix) ==
    {LET tour == SubSeq(best_path, 1, Len(best_path) - 1)
     IN  [i \in 1..Len(tour) |-> spots[tour[i]]] :
        best_path \in traveling_salesman_problem(Len(spots), distance_matrix)}

(***************************************************************************)
(* get_optimal_route, route_agent.py:97-119                                *)
(***************************************************************************)
\* the outcomes of one call: what it raised, the cache it leaves behind
\* and, when it raised nothing, the returned route and the matrix it was
\* computed from
get_optimal_route(cache, spots) ==
    IF Len(spots) <= 1
    THEN {[raised |-> "no", route |-> spots, matrix |-> <<>>, cache |-> cache]}
    ELSE LET m == get_distance_matrix(cache, spots)
         IN  IF m.raised # "no" THEN {[raised |-> m.raised, cache |-> m.cache]}
             ELSE IF Len(spots) <= BruteForceLimit
             THEN {[raised |-> "no", route |-> solve_tsp_brute_force(spots, m.matrix),
                    matrix |-> m.matrix, cache |-> m.cache]}
             ELSE {[raised |-> "no", route |-> r, matrix |-> m.matrix, cache |-> m.cache] :
                      r \in solve_tsp_approximate(spots, m.matrix)}

(***************************************************************************)
(* The RouteAgent object: its cache, and the last call made on it with     *)
(* what the call returned.                                                 *)
(***************************************************************************)
(***************************************************************************)
(* format_daily_plan_to_itinerary and optimize_daily_route.                *)
(* A text is the sequence of its characters; a date text YYYY-MM-DD is the *)
(* record of its three numbers; a clock text HH:MM is the record of its    *)
(* two numbers.  A dict is the sequence of its items in insertion order.   *)
(***************************************************************************)
Digits == <<"0", "1", "2", "3", "4", "5", "6", "7", "8", "9">>

IsDigit(c) == \E i \in 1..Len(Digits) : Digits[i] = c

DigitValue(c) == (CHOOSE i \in 1..Len(Digits) : Digits[i] = c) - 1

\* str.startswith
startswith(s, prefix) ==
    /\ Len(s) >= Len(prefix)
    /\ SubSeq(s, 1, Len(prefix)) = prefix

\* int() of a text of decimal digits
RECURSIVE int_of_digits(_)
int_of_digits(s) ==
    IF s = <<>> THEN 0
    ELSE 10 * int_of_digits(SubSeq(s, 1, Len(s) - 1)) + DigitValue(s[Len(s)])

\* re.findall(r'\d+', x)[0]: the first maximal run of digits of x
first_digit_run(x) ==
    LET first == Min({i \in 1..Len(x) : IsDigit(x[i])})
        last  == Max({j \in first..Len(x) : \A i \in first..j : IsDigit(x[i])})
    IN  SubSeq(x, first, last)

\* line 219: key.startswith("day") and re.match(r"day\d+", key)
is_day_key(key) ==
    /\ startswith(key, <<"d", "a", "y">>)
    /\ Len(key) >= 4
    /\ IsDigit(key[4])

\* lines 220, 224: int(re.findall(r'\d+', key)[0])
day_number_of(key) == int_of_digits(first_digit_run(key))

\* sorted(seq, key=...), keys[i] being the key of seq[i]: ascending in the
\* key, equal keys in their old order
sorted(seq, keys) ==
    LET before(i, j) == \/ keys[i] < keys[j]
                        \/ (keys[i] = keys[j] /\ i < j)
        rank(j) == Cardinality({i \in 1..Len(seq) : before(i, j)}) + 1
    IN  [r \in 1..Len(seq) |-> seq[CHOOSE j \in 1..Len(seq) : rank(j) = r]]

\* lines 218-221
sorted_day_keys(daily_plan_name_dict) ==
    LET day_keys == SelectSeq([i \in 1..Len(daily_plan_name_dict) |->
                                  daily_plan_name_dict[i].key], is_day_key)
    IN  sorted(day_keys, [i \in 1..Len(day_keys) |-> day_number_of(day_keys[i])])

\* dict.get(key, []) on the items of the plan
names_for_day(daily_plan_name_dict, day_key) ==
    LET hits == {i \in 1..Len(daily_plan_name_dict) : daily_plan_name_dict[i].key = day_key}
    IN  IF hits = {} THEN <<>> ELSE daily_plan_name_dict[CHOOSE i \in hits : TRUE].names

\* lines 227-232: the objects of the names that the map knows
spot_objects_for(spot_names_for_day, all_spots_object_map) ==
    LET known == SelectSeq(spot_names_for_day, LAMBDA name : name \in DOMAIN all_spots_object_map)
    IN  [i \in 1..Len(known) |-> all_spots_object_map[known[i]]]

\* calendar of datetime
IsLeap(y) == (y % 4 = 0 /\ y % 100 # 0) \/ y % 400 = 0

DaysIn(y, m) ==
    IF m = 2 THEN (IF IsLeap(y) THEN 29 ELSE 28)
    ELSE IF m \in {4, 6, 9, 11} THEN 30 ELSE 31

\* datetime.strptime(text, "%Y-%m-%d") succeeds
IsDateText(text) ==
    /\ DOMAIN text = {"y", "m", "d"}
    /\ text.y \in 1..9999
    /\ text.m \in 1..12
    /\ text.d \in 1..DaysIn(text.y, text.m)

\* current_date += timedelta(days=1)
next_day(date) ==
    IF date.d < DaysIn(date.y, date.m) THEN [date EXCEPT !.d = @ + 1]
    ELSE IF date.m < 12 THEN [date EXCEPT !.m = @ + 1, !.d = 1]
    ELSE [y |-> date.y + 1, m |-> 1, d |-> 1]

\* datetime.now() of lines 214: the day the program runs
Today == [y |-> 2026, m |-> 11, d |-> 30]

\* the test of lines 54 and 61: "location" in attraction and "lat" in
\* attraction["location"] and "lng" in attraction["location"]
has_lat_lng(attraction) ==
    /\ HasLocation(attraction)
    /\ {"lat", "lng"} \subseteq DOMAIN attraction.location

\* InformationAgent.plan_with_waypoints as its caller sees it: None, or a
\* reply whose waypoint_original_indices is the waypoint_order of the
\* directions service: the order in which it visits the waypoints (0-based
\* positions in the waypoints list), or the [] of line 487 when the reply
\* of the service holds no waypoint_order
plan_with_waypoints(waypoints) ==
    {None, [waypoint_original_indices |-> <<>>]} \cup
    {[waypoint_original_indices |-> [i \in 1..Len(waypoints) |-> order[i] - 1]] :
        order \in IF waypoints = <<>> THEN {<<>>}
                  ELSE Range(PermutationsOfRange[Len(waypoints)])}

\* lines 26-95; the outcomes are records [raised, route, cache], without
\* the route when the call raised.  An exception of the fallback of line
\* 78 is caught at line 92 and the fallback of line 95 raises it again.
optimize_daily_route(cache, agent, attractions_for_day) ==
    LET fallback == {IF r.raised = "no"
                     THEN [raised |-> "no", route |-> r.route, cache |-> r.cache]
                     ELSE [raised |-> r.raised, cache |-> r.cache] :
                        r \in get_optimal_route(cache, attractions_for_day)}
        origin == attractions_for_day[1]
        waypoints == SelectSeq(Tail(attractions_for_day), has_lat_lng)
        optimized(reply) ==
            <<origin>> \o [i \in 1..Len(reply.waypoint_original_indices) |->
                              attractions_for_day[reply.waypoint_original_indices[i] + 2]]
        unchanged == {[raised |-> "no", route |-> attractions_for_day, cache |-> cache]}
    IN  IF Len(attractions_for_day) <= 1 THEN unchanged
        ELSE IF agent = "None" THEN fallback
        ELSE IF ~has_lat_lng(origin) THEN unchanged
        ELSE UNION {IF reply = None THEN fallback
                    ELSE {[raised |-> "no", route |-> optimized(reply), cache |-> cache]} :
                        reply \in plan_with_waypoints(waypoints)}

\* f"{int(hour):02d}:00", for an hour given in quarters of an hour
clock_text(quarters) == [hh |-> quarters \div 4, mm |-> 0]

\* line 247: spot_obj.get("estimated_duration", 2), in quarters of an hour
spot_duration(spot_obj) ==
    IF "estimated_duration" \in DOMAIN spot_obj THEN spot_obj.estimated_duration ELSE 8

\* start_offset_hours when the loop of lines 246-259 reaches stop i
RECURSIVE start_offset(_, _)
start_offset(spots, i) ==
    IF i <= 1 THEN 0
    ELSE start_offset(spots, i - 1) + spot_duration(spots[i - 1])

\* lines 246-259: copies of the stops with their times, from 9 AM on
timed_spots(spots) ==
    [i \in 1..Len(spots) |->
        LET activity_start_hour == 36 + start_offset(spots, i)
            activity_end_hour == activity_start_hour + spot_duration(spots[i])
        IN  [f \in DOMAIN spots[i] \cup {"start_time", "end_time"} |->
                IF f = "start_time" THEN clock_text(activity_start_hour)
                ELSE IF f = "end_time" THEN clock_text(activity_end_hour)
                ELSE spots[i][f]]]

\* the loop of lines 223-266 from the k-th day key on; the outcomes are
\* records [raised, itinerary, cache], without the itinerary when
\* optimize_daily_route raised
RECURSIVE format_days(_, _, _, _, _, _, _)
format_days(cache, agent, daily_plan_name_dict, all_spots_object_map, day_keys, k, current_date) ==
    IF k > Len(day_keys) THEN {[raised |-> "no", itinerary |-> <<>>, cache |-> cache]}
    ELSE
        LET day_key == day_keys[k]
            raw == spot_objects_for(names_for_day(daily_plan_name_dict, day_key),
                                    all_spots_object_map)
            optimized == IF Len(raw) > 1 THEN optimize_daily_route(cache, agent, raw)
                         ELSE {[raised |-> "no", route |-> raw, cache |-> cache]}
            entry(spots) == [day |-> day_number_of(day_key),
                             date |-> current_date,
                             spots |-> timed_spots(spots)]
        IN  UNION {IF o.raised # "no" THEN {o}
                   ELSE {IF rest.raised # "no" THEN rest
                         ELSE [raised |-> "no",
                               itinerary |-> <<entry(o.route)>> \o rest.itinerary,
                               cache |-> rest.cache] :
                            rest \in format_days(o.cache, agent, daily_plan_name_dict,
                                                 all_spots_object_map, day_keys, k + 1,
                                                 next_day(current_date))} :
                   o \in optimized}

\* lines 206-268
format_daily_plan_to_itinerary(cache, agent, daily_plan_name_dict, all_spots_object_map, start_date_str) ==
    format_days(cache, agent, daily_plan_name_dict, all_spots_object_map,
                sorted_day_keys(daily_plan_name_dict), 1,
                IF IsDateText(start_date_str) THEN start_date_str ELSE Today)
(***************************************************************************)
(* estimate_budget.  A Python value that may be a text or a number is the  *)
(* record [str |-> text] or [num |-> number].  Amounts of money are exact: *)
(* a returned field is a whole number of cents; a sum before rounding is   *)
(* the record [cents, part] of the amount cents + part/40000 cents, which  *)
(* is the grid of distance x efficiency x fuel price in the units above.   *)
(***************************************************************************)
\* the character U+2013, the en dash
EnDash == "en dash"

text_low == <<"l", "o", "w">>

text_medium == <<"m", "e", "d", "i", "u", "m">>

text_high == <<"h", "i", "g", "h">>

\* str.replace(c, "") for every c of chars
remove_chars(text, chars) == SelectSeq(text, LAMBDA c : c \notin chars)

\* str.split(sep)[0]
before_first(text, sep) ==
    IF sep \in Range(text)
    THEN SubSeq(text, 1, Min({i \in 1..Len(text) : text[i] = sep}) - 1)
    ELSE text

\* str.strip() for the blank
strip(text) ==
    LET inked == {i \in 1..Len(text) : text[i] # " "}
    IN  IF inked = {} THEN <<>> ELSE SubSeq(text, Min(inked), Max(inked))

AllDigits(text) == \A i \in 1..Len(text) : IsDigit(text[i])

\* what float(text) and int(text) raise on a text that is no number
ValueError == [raised |-> "ValueError"]

\* float(text): ValueError, or the number as its sign, its whole part and
\* its fraction digits, or one of the special values.  The texts of the
\* model hold no exponent and no underscore.
float_of(text) ==
    LET t == strip(text)
        neg == t # <<>> /\ t[1] = "-"
        u == IF t # <<>> /\ t[1] \in {"+", "-"} THEN Tail(t) ELSE t
        whole == before_first(u, ".")
        frac == IF "." \in Range(u) THEN SubSeq(u, Len(whole) + 2, Len(u)) ELSE <<>>
    IN  IF u \in {<<"i", "n", "f">>, <<"i", "n", "f", "i", "n", "i", "t", "y">>}
            THEN [special |-> "inf", neg |-> neg]
        ELSE IF u = <<"n", "a", "n">> THEN [special |-> "nan", neg |-> neg]
        ELSE IF AllDigits(whole) /\ AllDigits(frac) /\ Len(whole) + Len(frac) >= 1
            THEN [special |-> "no", neg |-> neg,
                  whole |-> int_of_digits(whole), frac |-> frac]
        ELSE ValueError

\* value < bound, for a float and a positive whole bound
float_less(value, bound) ==
    IF value.special = "nan" THEN FALSE
    ELSE IF value.special = "inf" THEN value.neg
    ELSE IF value.neg THEN TRUE
    ELSE value.whole < bound

\* variant of budget_level_of that parses a range whole instead of taking
\* its lower bound
budget_level_of_whole_range(user_prefs) ==
    LET budget_value == IF "budget" \in DOMAIN user_prefs THEN user_prefs.budget
                        ELSE [str |-> text_medium]
        number == float_of(remove_chars(budget_value.str, {"$", ","}))
    IN  IF "str" \in DOMAIN budget_value
        THEN IF number = ValueError THEN "medium"
             ELSE IF float_less(number, 1000) THEN "low"
             ELSE IF float_less(number, 3000) THEN "medium"
             ELSE "high"
        ELSE "medium"

\* lines 280-300
budget_level_of(user_prefs) ==
    LET budget_value == IF "budget" \in DOMAIN user_prefs THEN user_prefs.budget
                        ELSE [str |-> text_medium]
        stripped == remove_chars(budget_value.str, {"$", ","})
        lower == IF EnDash \in Range(stripped) \/ "-" \in Range(stripped)
                 THEN before_first(before_first(stripped, EnDash), "-")
                 ELSE stripped
        number == float_of(lower)
    IN  IF "str" \in DOMAIN budget_value
        THEN IF number = ValueError THEN "medium"
             ELSE IF float_less(number, 1000) THEN "low"
             ELSE IF float_less(number, 3000) THEN "medium"
             ELSE "high"
        ELSE "medium"

\* lines 273-277, in cents
base_costs ==
    [low    |-> [accommodation |-> 5000,  food |-> 3000,  transport |-> 1000],
     medium |-> [accommodation |-> 10000, food |-> 6000,  transport |-> 2000],
     high   |-> [accommodation |-> 20000, food |-> 10000, transport |-> 4000]]

\* line 314, in cents; line 315: cost_map.get(price_level, 20)
cost_map == [p \in 0..4 |-> <<0, 1000, 2000, 3000, 5000>>[p + 1]]

\* variant of cost_of_level that charges ten dollars a level
cost_of_level_linear(price_level) ==
    IF price_level \in DOMAIN cost_map THEN 1000 * price_level ELSE 2000

cost_of_level(price_level) ==
    IF price_level \in DOMAIN cost_map THEN cost_map[price_level] ELSE 2000

\* lines 310-315
RECURSIVE attraction_cost_of(_, _)
attraction_cost_of(spots, num_people) ==
    IF spots = <<>> THEN 0
    ELSE cost_of_level(IF "price_level" \in DOMAIN Head(spots)
                       THEN Head(spots).price_level ELSE 2) * num_people
            + attraction_cost_of(Tail(spots), num_people)

\* lines 352-365: litres per 100 km, in half litres
fuel_efficiency == [low |-> 14, medium |-> 17, high |-> 20]

\* utils.extract_number, utils.py:46-93: None, or the float found
extract_number(text) ==
    LET direct == float_of(text)
        kept == SelectSeq(strip(text), LAMBDA c : IsDigit(c) \/ c \in {".", ","})
        plain == IF "," \in Range(kept) /\ "." \in Range(kept)
                 THEN remove_chars(kept, {","})
                 ELSE [i \in 1..Len(kept) |-> IF kept[i] = "," THEN "." ELSE kept[i]]
        whole == first_digit_run(plain)
        rest == SubSeq(plain, Min({i \in 1..Len(plain) : IsDigit(plain[i])}) + Len(whole),
                       Len(plain))
        frac == IF rest # <<>> /\ rest[1] = "."
                THEN (IF \E i \in 1..Len(Tail(rest)) : ~IsDigit(Tail(rest)[i])
                      THEN SubSeq(Tail(rest), 1,
                                  Min({i \in 1..Len(Tail(rest)) : ~IsDigit(Tail(rest)[i])}) - 1)
                      ELSE Tail(rest))
                ELSE <<>>
    IN  IF direct # ValueError THEN direct
        ELSE IF \E i \in 1..Len(plain) : IsDigit(plain[i])
            THEN [special |-> "no", neg |-> FALSE,
                  whole |-> int_of_digits(whole), frac |-> frac]
        ELSE None

\* int(float): towards zero
int_of_float(value) == IF value.neg THEN 0 - value.whole ELSE value.whole

\* an amount of whole cents as an exact amount
exact(cents) == [cents |-> cents, part |-> 0]

\* the sum of two exact amounts
plus(a, b) ==
    [cents |-> a.cents + b.cents + (a.part + b.part) \div 40000,
     part  |-> (a.part + b.part) % 40000]

\* round(amount, 2), in cents: the nearest cent; an amount half way between
\* two cents goes to either, as its binary value lies on either side
round2(amount) ==
    IF 2 * amount.part < 40000 THEN {amount.cents}
    ELSE IF 2 * amount.part > 40000 THEN {amount.cents + 1}
    ELSE {amount.cents, amount.cents + 1}

\* lines 346-348: the total distance of the route and the cache after the
\* calls of _calculate_distance on its consecutive stops
RECURSIVE route_legs(_, _, _)
route_legs(cache, route, i) ==
    IF i >= Len(route) THEN [raised |-> "no", distance |-> 0, cache |-> cache]
    ELSE LET r == calculate_distance(cache, route[i], route[i + 1])
             rest == route_legs(r.cache, route, i + 1)
         IN  IF r.raised # "no" THEN r
             ELSE IF rest.raised # "no" THEN rest
             ELSE [raised |-> "no", distance |-> r.distance + rest.distance,
                   cache |-> rest.cache]

\* variant of fuel_cost_of that takes the efficiency of a mid-range car
\* whatever the budget level
fuel_cost_of_mid_range(total_distance, budget_level, fuel_price) ==
    LET product == total_distance * fuel_efficiency["medium"] * fuel_price
    IN  [cents |-> product \div 40000, part |-> product % 40000]

\* lines 369-370: metres x half litres per 100 km x twentieths of a dollar
\* per litre, as an exact amount
fuel_cost_of(total_distance, budget_level, fuel_price) ==
    LET product == total_distance * fuel_efficiency[budget_level] * fuel_price
    IN  [cents |-> product \div 40000, part |-> product % 40000]

\* variant of budget_total that leaves the attractions out of the total
budget_total_without_attractions(base_total, attraction_cost, car_rental_cost, fuel_cost) ==
    plus(plus(exact(base_total), car_rental_cost), fuel_cost)

\* variant of budget_total that leaves the fuel out of the total
budget_total_without_fuel(base_total, attraction_cost, car_rental_cost, fuel_cost) ==
    plus(exact(base_total + attraction_cost), car_rental_cost)

\* lines 318, 335, 371: total = base_total + attraction_cost, then
\* total += car_rental_cost, then total += fuel_cost
budget_total(base_total, attraction_cost, car_rental_cost, fuel_cost) ==
    plus(plus(exact(base_total + attraction_cost), car_rental_cost), fuel_cost)

\* variant of budget_dicts whose food is not multiplied by the people
budget_dicts_shared_food(budget_level, num_days, num_people, attraction_cost, total, car_rental_cost, fuel_cost) ==
    {[total         |-> t,
      accommodation |-> base_costs[budget_level].accommodation * num_days * num_people,
      food          |-> base_costs[budget_level].food * num_days,
      transport     |-> base_costs[budget_level].transport * num_days * num_people,
      attractions   |-> attraction_cost,
      car_rental    |-> c,
      fuel_cost     |-> f] :
        t \in round2(total), c \in round2(car_rental_cost), f \in round2(fuel_cost)}

\* lines 374-382: the returned dicts, one for each way the roundings fall
budget_dicts(budget_level, num_days, num_people, attraction_cost, total, car_rental_cost, fuel_cost) ==
    {[total         |-> t,
      accommodation |-> base_costs[budget_level].accommodation * num_days * num_people,
      food          |-> base_costs[budget_level].food * num_days * num_people,
      transport     |-> base_costs[budget_level].transport * num_days * num_people,
      attractions   |-> attraction_cost,
      car_rental    |-> c,
      fuel_cost     |-> f] :
        t \in round2(total), c \in round2(car_rental_cost), f \in round2(fuel_cost)}

\* dict.get(key, default)
get(dict, key, default) == IF key \in DOMAIN dict THEN dict[key] ELSE default

\* lines 270-382.  ai_response is what ask_openai returns to line 323.  The
\* outcomes are records [raised, cache, budget]; raised is "no" when the
\* call returns its budget.
estimate_budget(cache, spots, user_prefs, should_rent_car, car_info, fuel_price, ai_response) ==
    LET budget_level == budget_level_of(user_prefs)
        num_people == get(user_prefs, "people", 1)
        num_days == get(user_prefs, "days", 1)
        daily_cost == base_costs[budget_level].accommodation
                        + base_costs[budget_level].food
                        + base_costs[budget_level].transport
        base_total == daily_cost * num_days * num_people
        attraction_cost == attraction_cost_of(spots, num_people)
        returned(new_cache, car_rental_cost, fuel_cost) ==
            {[raised |-> "no", cache |-> new_cache, budget |-> b] :
                b \in budget_dicts(budget_level, num_days, num_people, attraction_cost,
                                   budget_total(base_total, attraction_cost,
                                                car_rental_cost, fuel_cost),
                                   car_rental_cost, fuel_cost)}
        raises(error, new_cache) == {[raised |-> error, cache |-> new_cache]}
        number == extract_number(ai_response.answer)
        recommend_car == int_of_float(number)
        idx == IF recommend_car \in 1..Len(car_info.some) THEN recommend_car - 1 ELSE 0
        with_route(r) ==
            LET legs == route_legs(r.cache, r.route, 1)
            IN  IF r.raised # "no" THEN raises(r.raised, r.cache)
                ELSE IF legs.raised # "no" THEN raises(legs.raised, legs.cache)
                ELSE IF fuel_price = None THEN raises("TypeError", legs.cache)
                ELSE returned(legs.cache, car_info.some[idx + 1].price,
                              fuel_cost_of(legs.distance, budget_level, fuel_price.some))
    IN  IF ~should_rent_car THEN returned(cache, exact(0), exact(0))
        ELSE IF ai_response = None THEN raises("TypeError", cache)
        ELSE IF number = None THEN raises("TypeError", cache)
        ELSE IF number.special = "nan" THEN raises("ValueError", cache)
        ELSE IF number.special = "inf" THEN raises("OverflowError", cache)
        ELSE IF car_info = None THEN raises("TypeError", cache)
        ELSE IF car_info.some = <<>> THEN raises("IndexError", cache)
        ELSE UNION {with_route(r) : r \in get_optimal_route(cache, spots)}

\* travel_graph.py:465: {spot["name"]: spot for spot in attractions}
all_spots_map(attractions) ==
    [name \in {attractions[i].name : i \in 1..Len(attractions)} |->
        attractions[Max({i \in 1..Len(attractions) : attractions[i].name = name})]]

(***************************************************************************)
(* The steps of TravelGraph that lead to the route step, for one session.  *)
(***************************************************************************)
\* the characters of the model in the order of their code points
CodeOrder ==
    <<" ", "$", "+", ",", "-", ".", "0", "1", "2", "3", "4", "5", "6", "7", "8", "9",
      "a", "b", "c", "d", "e", "f", "g", "h", "i", "j", "k", "l", "m",
      "n", "o", "p", "q", "r", "s", "t", "u", "v", "w", "x", "y", "z", EnDash>>

code_point(c) == CHOOSE i \in 1..Len(CodeOrder) : CodeOrder[i] = c

\* a < b for two texts
text_less(a, b) ==
    \E k \in 1..(Len(b)) :
        /\ k <= Len(a) + 1
        /\ SubSeq(a, 1, k - 1) = SubSeq(b, 1, k - 1)
        /\ (k = Len(a) + 1 \/ code_point(a[k]) < code_point(b[k]))

\* sorted(texts) for texts without repeats
sorted_texts(texts) ==
    [r \in 1..Len(texts) |->
        texts[CHOOSE j \in 1..Len(texts) :
                 Cardinality({i \in 1..Len(texts) : text_less(texts[i], texts[j])}) = r - 1]]

\* the concatenation of a sequence of sequences
RECURSIVE concat(_)
concat(lists) == IF lists = <<>> THEN <<>> ELSE Head(lists) \o concat(Tail(lists))

\* strategy_agent.py:138-141: the names of the plan, day keys in sorted order
plan_attraction_names(daily_plan_raw) ==
    LET keys == sorted_texts([i \in 1..Len(daily_plan_raw) |-> daily_plan_raw[i].key])
    IN  concat([i \in 1..Len(keys) |-> names_for_day(daily_plan_raw, keys[i])])

\* plan_remaining_time, strategy_agent.py:15-185, as its caller sees it.
\* last_plan is daily_plan_raw after the last attempt of the loop of lines
\* 65-156: the parsed plan of the planner, or the empty dict.
plan_remaining_time(selected_spots, all_attractions, last_plan) ==
    LET names == plan_attraction_names(last_plan)
        valid_plan == \A i \in 1..Len(selected_spots) :
                          selected_spots[i].name \in Range(names)
        final_planned_attractions_names == IF valid_plan THEN names ELSE <<>>
    IN  [additional_attractions |->
            IF final_planned_attractions_names = <<>> THEN selected_spots
            ELSE spot_objects_for(final_planned_attractions_names,
                                  all_spots_map(all_attractions)),
         daily_plan |-> last_plan]

\* dict.update: the items of new over those of old
update(old, new) == new @@ old

\* the date n days after date
RECURSIVE days_after(_, _)
days_after(date, n) == IF n = 0 THEN date ELSE days_after(next_day(date), n - 1)

\* travel_graph.py:487-492: the stops of the itinerary, each with its day
optimal_route_of(itinerary) ==
    concat([i \in 1..Len(itinerary) |->
               [j \in 1..Len(itinerary[i].spots) |->
                   update(itinerary[i].spots[j], [day |-> itinerary[i].day])]])

\* _process_route, travel_graph.py:439-542.  confirmation tells whether
\* generate_booking_confirmation of line 520 returns a text or raises.  The
\* outcomes are records [result, state, cache].
process_route(cache, agent, st, confirmation) ==
    LET user_info == st.user_info
        start_date == get(user_info, "start_date", Today)
        all_attractions_objects == st.attractions
        daily_plan_name_dict == st.daily_plan
        error(name, new_state, new_cache) ==
            [result |-> [next_step |-> "error", error |-> name],
             state |-> new_state, cache |-> new_cache]
        itineraries ==
            IF daily_plan_name_dict # <<>>
            THEN format_daily_plan_to_itinerary(cache, agent, daily_plan_name_dict,
                     all_spots_map(all_attractions_objects), start_date)
            ELSE {[raised |-> "no", itinerary |-> <<>>, cache |-> cache]}
        with_budget(it, b) ==
            LET stored == [st EXCEPT !.itinerary = it.itinerary, !.budget = b.budget]
            IN  IF confirmation = "raised" THEN error("Exception", stored, b.cache)
                ELSE [result |-> [next_step |-> "complete",
                                  itinerary |-> it.itinerary,
                                  budget |-> b.budget,
                                  optimal_route |-> optimal_route_of(it.itinerary)],
                      state |-> stored, cache |-> b.cache]
        with_itinerary(it) ==
            IF it.raised # "no" THEN {error(it.raised, st, it.cache)}
            ELSE IF ~IsDateText(start_date) THEN {error("ValueError", st, it.cache)}
            ELSE IF st.should_rent_car THEN {error("AttributeError", st, it.cache)}
            ELSE {with_budget(it, b) :
                     b \in estimate_budget(it.cache, all_attractions_objects, user_info,
                                           FALSE, None, None, None)}
    IN  IF all_attractions_objects = <<>>
        THEN {[result |-> [next_step |-> "complete", itinerary |-> <<>>,
                           budget |-> <<>>, optimal_route |-> <<>>],
               state |-> st, cache |-> cache]}
        ELSE UNION {with_itinerary(it) : it \in itineraries}

(***************************************************************************)
(* The objects and their operations.                                       *)
(***************************************************************************)
EmptyCache == [k \in {} |-> 0]

\* no call is under way: the last result has gone to the caller
NoCall == [op |-> "idle"]

\* the threads of the server that call the object at the same time
Threads == 1..MaxThreads

\* no thread is inside _calculate_distance
NoThreads == [t \in Threads |-> [pc |-> "idle"]]

\* TravelGraph.__init__, travel_graph.py:21-32: the state of a new session
DefaultState ==
    [user_info |-> <<>>, attractions |-> <<>>, selected_attractions |-> <<>>,
     daily_plan |-> <<>>, should_rent_car |-> FALSE, itinerary |-> <<>>,
     budget |-> <<>>, ai_recommendation_generated |-> FALSE]

\* the session ids of the requests: thread t serves session t
SessionIds == Threads

\* references to the state dicts of a TravelGraph: one per session and the
\* one self.state refers to
Refs == 1..(MaxThreads + 1)

\* travel_graph.py:21-33: the TravelGraph after __init__.  state is the
\* reference held by self.state, session_states maps session ids to
\* references, objects holds the dicts that can still be reached.
NewGraph ==
    [state |-> 1,
     session_states |-> [sid \in {} |-> 1],
     objects |-> [ref \in {1} |-> DefaultState]]

\* __init__, route_agent.py:16-24; agent is what line 22 or line 20 left
\* in self.info_agent
Construct(agent) ==
    /\ distances_cache = EmptyCache
    /\ call = NoCall
    /\ info_agent = agent
    /\ state = DefaultState
    /\ threads = NoThreads
    /\ travel_graph = NewGraph

Init == Construct("InformationAgent")

InitAny == \E agent \in {"InformationAgent", "None"} : Construct(agent)

\* the object is called by one caller at a time, and the calls explored
\* are those made while the cache holds at most MaxWarmKeys entries
Warm ==
    /\ call = NoCall
    /\ Cardinality(DOMAIN distances_cache) <= MaxWarmKeys

\* the call under way returns its result to the caller; calls made by
\* several threads return when each thread has reached its return
Return ==
    /\ call # NoCall
    /\ \A t \in Threads : threads[t].pc \in {"idle", "return"}
    /\ call' = NoCall
    /\ threads' = NoThreads
    /\ UNCHANGED <<distances_cache, info_agent, travel_graph, state>>

CalculateDistanceIn(catalogue) ==
    /\ Warm
    /\ \E spot1, spot2 \in catalogue :
          LET r == calculate_distance(distances_cache, spot1, spot2)
          IN  /\ spot1 # spot2
              /\ distances_cache' = r.cache
              /\ call' = IF r.raised = "no"
                          THEN [op |-> "calculate_distance", spot1 |-> spot1,
                                spot2 |-> spot2, raised |-> "no", distance |-> r.distance]
                          ELSE [op |-> "calculate_distance", spot1 |-> spot1,
                                spot2 |-> spot2, raised |-> r.raised]
              /\ UNCHANGED <<info_agent, travel_graph, state, threads>>

GetOptimalRouteOf(inputs) ==
    /\ Warm
    /\ \E spots \in inputs :
          \E r \in get_optimal_route(distances_cache, spots) :
              /\ distances_cache' = r.cache
              /\ call' = IF r.raised = "no"
                          THEN [op |-> "get_optimal_route", spots |-> spots,
                                raised |-> "no", route |-> r.route, matrix |-> r.matrix]
                          ELSE [op |-> "get_optimal_route", spots |-> spots,
                                raised |-> r.raised]
              /\ UNCHANGED <<info_agent, travel_graph, state, threads>>

RouteInputs == DistinctSeqs(Catalogue, 0, MaxSpots)

CalculateDistance == CalculateDistanceIn(Catalogue)

GetOptimalRoute == GetOptimalRouteOf(RouteInputs)

Next == CalculateDistance \/ GetOptimalRoute \/ Return

Spec == Init /\ [][Next]_vars

(***************************************************************************)
(* The same object when a caller hands a returned route back to it.        *)
(***************************************************************************)
\* get_optimal_route called with the route the call before returned
GetOptimalRouteAgain ==
    /\ call # NoCall
    /\ call.op = "get_optimal_route"
    /\ call.raised = "no"
    /\ "first_route" \notin DOMAIN call
    /\ \E r \in get_optimal_route(distances_cache, call.route) :
          /\ distances_cache' = r.cache
          /\ call' = IF r.raised = "no"
                      THEN [op |-> "get_optimal_route", spots |-> call.route,
                            first_route |-> call.route,
                            raised |-> "no", route |-> r.route, matrix |-> r.matrix]
                      ELSE [op |-> "get_optimal_route", spots |-> call.route,
                            first_route |-> call.route, raised |-> r.raised]
          /\ UNCHANGED <<info_agent, travel_graph, state, threads>>

NextAgain == CalculateDistance \/ GetOptimalRoute \/ GetOptimalRouteAgain \/ Return

SpecAgain == Init /\ [][NextAgain]_vars

(***************************************************************************)
(* The same object handed lists of more than five attractions.             *)
(***************************************************************************)
Reverse(s) == [i \in 1..Len(s) |-> s[Len(s) + 1 - i]]

LongInputs == {LongList, Reverse(LongList)}

CalculateDistanceLong == CalculateDistanceIn({LineX, LineYZ, SpotXY, SpotZ})

GetOptimalRouteLong == GetOptimalRouteOf(LongInputs)

NextApprox == CalculateDistanceLong \/ GetOptimalRouteLong \/ Return

SpecApprox == Init /\ [][NextApprox]_vars

(***************************************************************************)
(* The same object handed attractions without geodata.                     *)
(***************************************************************************)
GeoCatalogue == {SpotA, SpotM, SpotNull, SpotBare, SpotNoLat}

GeoInputs == DistinctSeqs(GeoCatalogue, 0, MaxGeoSpots)

CalculateDistanceGeo == CalculateDistanceIn(GeoCatalogue)

GetOptimalRouteGeo == GetOptimalRouteOf(GeoInputs)

NextGeodata == CalculateDistanceGeo \/ GetOptimalRouteGeo \/ Return

SpecGeodata == Init /\ [][NextGeodata]_vars

(***************************************************************************)
(* _calculate_distance called by several threads on one object (the        *)
(* requests of one session are served by the threads of the server,        *)
(* main.py:64-81 and 292).  A thread can be interrupted between two        *)
(* accesses to the dict: between the test of line 144 and the read of line *)
(* 145, and between the test and the store of line 164.                    *)
(***************************************************************************)
\* every thread is handed a pair of attractions and enters the method
CallFromThreads ==
    /\ Warm
    /\ \E pairs \in [Threads -> {p \in Catalogue \X Catalogue : p[1] # p[2]}] :
          threads' = [t \in Threads |->
                         [pc |-> "called", spot1 |-> pairs[t][1], spot2 |-> pairs[t][2]]]
    /\ call' = [op |-> "calculate_distance by threads", cache_before |-> distances_cache]
    /\ UNCHANGED <<distances_cache, info_agent, travel_graph, state>>

\* lines 139-161: the tests of lines 139 and 144 and, when the key is not
\* in the cache, the computation of the distance
TestCache(t) ==
    /\ threads[t].pc = "called"
    /\ LET spot1 == threads[t].spot1
           spot2 == threads[t].spot2
           at(pc, fields) == threads' = [threads EXCEPT ![t] = fields @@ [pc |-> pc] @@ @]
       IN  IF ~HasLocation(spot1) \/ ~HasLocation(spot2)
           THEN at("return", [raised |-> "no", distance |-> DefaultDistance])
           ELSE IF cache_key(spot1, spot2) \in DOMAIN distances_cache
           THEN at("line 145", <<>>)
           ELSE IF coordinates_error(spot1, spot2) # "no"
           THEN at("return", [raised |-> coordinates_error(spot1, spot2)])
           ELSE at("line 164",
                   [distance |-> haversine(spot1.location.lat.some, spot1.location.lng.some,
                                           spot2.location.lat.some, spot2.location.lng.some)])
    /\ UNCHANGED <<distances_cache, call, info_agent, travel_graph, state>>

\* line 145: return self.distances_cache[cache_key]
ReadCache(t) ==
    /\ threads[t].pc = "line 145"
    /\ threads' = [threads EXCEPT ![t] =
                      [raised |-> "no",
                       distance |-> distances_cache[cache_key(@.spot1, @.spot2)]]
                          @@ [pc |-> "return"] @@ @]
    /\ UNCHANGED <<distances_cache, call, info_agent, travel_graph, state>>

\* lines 164-166: store the distance and return it
StoreDistance(t) ==
    /\ threads[t].pc = "line 164"
    /\ LET key == cache_key(threads[t].spot1, threads[t].spot2)
       IN  distances_cache' = [k \in DOMAIN distances_cache \cup {key} |->
                                  IF k = key THEN threads[t].distance
                                  ELSE distances_cache[k]]
    /\ threads' = [threads EXCEPT ![t] = [raised |-> "no"] @@ [pc |-> "return"] @@ @]
    /\ UNCHANGED <<call, info_agent, travel_graph, state>>

NextThreads ==
    \/ CallFromThreads
    \/ \E t \in Threads : TestCache(t) \/ ReadCache(t) \/ StoreDistance(t)
    \/ Return

SpecThreads == Init /\ [][NextThreads]_vars

(***************************************************************************)
(* format_daily_plan_to_itinerary called on the object.                    *)
(***************************************************************************)
text_day == <<"d", "a", "y">>

\* day keys a plan can hold: day1, day3, day01, daytrip
DayKeys == {text_day \o <<"1">>, text_day \o <<"3">>, text_day \o <<"0", "1">>,
            text_day \o <<"t", "r", "i", "p">>}

\* names the planner puts in a plan: two attractions, an attraction
\* without a location and a name no attraction has
PlanNames == {SpotAB.name, SpotC.name, SpotBare.name, "Zulu"}

\* the plans with the given keys in this order
PlansWithKeys(keys, names) ==
    {[i \in 1..Len(keys) |-> [key |-> keys[i], names |-> lists[i]]] :
        lists \in [1..Len(keys) -> DistinctSeqs(names, 0, MaxDayStops)]}

DailyPlans ==
    UNION {PlansWithKeys(keys, PlanNames) : keys \in DistinctSeqs(DayKeys, 0, MaxPlanDays)}

\* start dates: the last day of a February, a day no month has, no date
StartDates == {[y |-> 2025, m |-> 2, d |-> 28], [y |-> 2025, m |-> 2, d |-> 30],
               [text |-> "not decided"]}

FormatDailyPlanToItineraryWith(plans, dates, attractions) ==
    /\ Warm
    /\ \E daily_plan_name_dict \in plans, start_date_str \in dates :
          LET all_spots_object_map == all_spots_map(attractions)
          IN  \E r \in format_daily_plan_to_itinerary(distances_cache, info_agent,
                            daily_plan_name_dict, all_spots_object_map, start_date_str) :
                  /\ distances_cache' = r.cache
                  /\ call' = [op |-> "format_daily_plan_to_itinerary",
                              daily_plan_name_dict |-> daily_plan_name_dict,
                              all_spots_object_map |-> all_spots_object_map,
                              start_date_str |-> start_date_str,
                              raised |-> r.raised,
                              itinerary |-> IF r.raised = "no" THEN r.itinerary ELSE None]
                  /\ UNCHANGED <<info_agent, travel_graph, state, threads>>

FormatDailyPlanToItinerary ==
    FormatDailyPlanToItineraryWith(DailyPlans, StartDates,
        <<SpotA, SpotAB, SpotBC, SpotC, SpotM, SpotBare>>)

NextSchedule == FormatDailyPlanToItinerary \/ Return

SpecSchedule == InitAny /\ [][NextSchedule]_vars

(***************************************************************************)
(* format_daily_plan_to_itinerary called with the durations that           *)
(* estimate_duration produces (information_agent.py:296-325): 2, 3 or 6    *)
(* hours, times 1.5 for a rating above 4.5, times 0.75 for one below 3.    *)
(***************************************************************************)
\* a museum rated 2.5 (1.5 hours), a zoo rated 2.9 (2.25 hours), a night
\* club (3 hours), an amusement park (6 hours) and one rated 4.8 (9 hours)
TimedAttractions ==
    <<Attr("t1", "Tango", 0, 0, 6, 2), Attr("t2", "Uniform", 0, 1, 9, 2),
      Attr("t3", "Victor", 0, 2, 12, 2), Attr("t4", "Whiskey", 1, 3, 24, 3),
      Attr("t5", "Yoke", 1, 4, 36, 4)>>

\* plans of one day with up to MaxDayStops of these attractions
TimedPlans ==
    PlansWithKeys(<<text_day \o <<"1">> >>,
                  {TimedAttractions[i].name : i \in 1..Len(TimedAttractions)})

FormatTimedPlan ==
    FormatDailyPlanToItineraryWith(TimedPlans, {[y |-> 2025, m |-> 2, d |-> 28]},
                                   TimedAttractions)

NextTiming == FormatTimedPlan \/ Return

SpecTiming == InitAny /\ [][NextTiming]_vars

(***************************************************************************)
(* estimate_budget called on the object.                                   *)
(***************************************************************************)
BudgetAlphabet == {"$", ",", "-", EnDash, " ", "0", "1", "3"}

\* every text of at most MaxBudgetLen characters of the alphabet
ShortTexts == UNION {[1..n -> BudgetAlphabet] : n \in 0..MaxBudgetLen}

\* low, medium, high, 500, 5000, $1,000-$2,000, 2999.99, 2k, nan
NamedTexts ==
    {text_low, text_medium, text_high,
     <<"5", "0", "0">>, <<"5", "0", "0", "0">>,
     <<"$", "1", ",", "0", "0", "0", "-", "$", "2", ",", "0", "0", "0">>,
     <<"2", "9", "9", "9", ".", "9", "9">>,
     <<"2", "k">>,
     <<"n", "a", "n">>}

\* user_prefs of a caller that only varies the budget text
TextPrefs == {[budget |-> [str |-> t], people |-> 1, days |-> 1] : t \in ShortTexts}

\* user_prefs with every field, with a number for a budget, with no field
TripPrefs ==
    {[budget |-> b, people |-> p, days |-> d] :
        b \in {[str |-> t] : t \in NamedTexts} \cup {[num |-> 2000]},
        p \in 1..MaxPeople, d \in 1..MaxTripDays}
    \cup {<<>>}

BudgetSpotLists ==
    {<<>>, <<SpotM>>, <<SpotA, SpotM>>, <<SpotBC, SpotM>>, <<SpotAB, SpotC, SpotA>>}

\* car lists of search_car_rentals: prices 299.99 and 332.294
Cars == <<[price |-> exact(29999)], [price |-> [cents |-> 33229, part |-> 16000]]>>

\* answers of the model asked for a car: 2, "car 7", "no"
CarAnswers == {None, [answer |-> <<"2">>], [answer |-> <<"c", "a", "r", " ", "7">>],
               [answer |-> <<"n", "o">>]}

\* fuel prices: none, 1.20 and 1.25 a litre
FuelPrices == {None, Some(24), Some(25)}

EstimateBudgetWith(prefs, lists, rent, cars, prices, answers) ==
    /\ Warm
    /\ \E spots \in lists, user_prefs \in prefs, should_rent_car \in rent,
          car_info \in cars, fuel_price \in prices, ai_response \in answers :
          \E r \in estimate_budget(distances_cache, spots, user_prefs, should_rent_car,
                                   car_info, fuel_price, ai_response) :
              /\ distances_cache' = r.cache
              /\ call' = [op |-> "estimate_budget", spots |-> spots,
                          user_prefs |-> user_prefs, should_rent_car |-> should_rent_car,
                          car_info |-> car_info, fuel_price |-> fuel_price,
                          ai_response |-> ai_response, result |-> r,
                          cache_before |-> distances_cache]
              /\ UNCHANGED <<info_agent, travel_graph, state, threads>>

EstimateBudget ==
    \/ EstimateBudgetWith(TextPrefs, {<<SpotM>>}, {FALSE}, {None}, {None}, {None})
    \/ EstimateBudgetWith(TripPrefs, BudgetSpotLists, {FALSE}, {None}, {None}, {None})
    \/ EstimateBudgetWith(TripPrefs, BudgetSpotLists, {TRUE},
                          {None, Some(<<>>), Some(Cars)}, FuelPrices, CarAnswers)

NextBudget == EstimateBudget \/ Return

SpecBudget == Init /\ [][NextBudget]_vars

(***************************************************************************)
(* The three methods seen at the level of the objects they are handed.     *)
(* The dicts a caller holds are the entries of a sequence, and a reference *)
(* to a dict is its index; the records the operators above work on are the *)
(* contents of the objects at the time of the call.                        *)
(***************************************************************************)
\* variant of copy that hands back the object itself (spot_with_time = spot_obj)
same_object(objects, ref) == [objects |-> objects, ref |-> ref]

\* line 249: spot_obj.copy(), a new dict with the items of spot_obj
copy(objects, ref) == [objects |-> Append(objects, objects[ref]), ref |-> Len(objects) + 1]

\* d[key] = value
setitem(objects, ref, key, value) ==
    [objects EXCEPT ![ref] = [f \in DOMAIN objects[ref] \cup {key} |->
                                 IF f = key THEN value ELSE objects[ref][f]]]

\* lines 246-259 from the i-th stop of the day on: the objects after the
\* loop and the references appended to current_day_spots_timed
RECURSIVE timed_objects(_, _, _, _)
timed_objects(objects, refs, i, start_offset_hours) ==
    IF i > Len(refs) THEN [objects |-> objects, refs |-> <<>>]
    ELSE LET duration == spot_duration(objects[refs[i]])
             spot_with_time == copy(objects, refs[i])
             activity_start_hour == 36 + start_offset_hours
             activity_end_hour == activity_start_hour + duration
             written == setitem(setitem(spot_with_time.objects, spot_with_time.ref,
                                        "start_time", clock_text(activity_start_hour)),
                                spot_with_time.ref, "end_time", clock_text(activity_end_hour))
             rest == timed_objects(written, refs, i + 1, start_offset_hours + duration)
         IN  [objects |-> rest.objects, refs |-> <<spot_with_time.ref>> \o rest.refs]

\* the objects of the references
contents(objects, refs) == [i \in 1..Len(refs) |-> objects[refs[i]]]

\* the references, among those given, of the objects of a route: a route
\* of optimize_daily_route holds objects of the list it was handed
refs_of(objects, refs, route) ==
    [i \in 1..Len(route) |-> CHOOSE r \in Range(refs) : objects[r] = route[i]]

\* lines 223-266 from the k-th day key on, with the objects: the outcomes
\* are records [raised, objects, itinerary, cache]
RECURSIVE format_days_objects(_, _, _, _, _, _, _, _)
format_days_objects(objects, cache, agent, daily_plan_name_dict, all_spots_object_map, day_keys, k, current_date) ==
    IF k > Len(day_keys)
    THEN {[raised |-> "no", objects |-> objects, itinerary |-> <<>>, cache |-> cache]}
    ELSE
        LET day_key == day_keys[k]
            raw == spot_objects_for(names_for_day(daily_plan_name_dict, day_key),
                                    all_spots_object_map)
            optimized == IF Len(raw) > 1
                         THEN optimize_daily_route(cache, agent, contents(objects, raw))
                         ELSE {[raised |-> "no", route |-> contents(objects, raw),
                                cache |-> cache]}
        IN  UNION {IF o.raised # "no"
                   THEN {[raised |-> o.raised, objects |-> objects, cache |-> o.cache]}
                   ELSE LET timed == timed_objects(objects, refs_of(objects, raw, o.route), 1, 0)
                            entry == [day |-> day_number_of(day_key), date |-> current_date,
                                      spots |-> timed.refs]
                        IN  {IF rest.raised # "no" THEN rest
                             ELSE [rest EXCEPT !.itinerary = <<entry>> \o @] :
                                rest \in format_days_objects(timed.objects, o.cache, agent,
                                            daily_plan_name_dict, all_spots_object_map,
                                            day_keys, k + 1, next_day(current_date))} :
                   o \in optimized}

\* lines 206-268, with the objects
format_daily_plan_objects(objects, cache, agent, daily_plan_name_dict, all_spots_object_map, start_date_str) ==
    format_days_objects(objects, cache, agent, daily_plan_name_dict, all_spots_object_map,
                        sorted_day_keys(daily_plan_name_dict), 1,
                        IF IsDateText(start_date_str) THEN start_date_str ELSE Today)

\* the attraction dicts the caller holds, and the map of their names
HeldObjects == <<SpotA, SpotAB, SpotC, SpotBare>>

HeldMap ==
    [name \in {HeldObjects[i].name : i \in 1..Len(HeldObjects)} |->
        Max({i \in 1..Len(HeldObjects) : HeldObjects[i].name = name})]

\* plans of a first and a third day
HeldPlans == PlansWithKeys(<<text_day \o <<"1">>, text_day \o <<"3">> >>, PlanNames)

\* lists of references a caller hands over
HeldLists == DistinctSeqs(1..Len(HeldObjects), 0, MaxDayStops + 1)

\* format_daily_plan_to_itinerary called with the map of the held objects
FormatObjects ==
    /\ Warm
    /\ \E daily_plan_name_dict \in HeldPlans :
          \E r \in format_daily_plan_objects(HeldObjects, distances_cache, info_agent,
                        daily_plan_name_dict, HeldMap, [y |-> 2025, m |-> 2, d |-> 28]) :
              /\ distances_cache' = r.cache
              /\ call' = [op |-> "format_daily_plan_to_itinerary", on |-> "objects",
                          daily_plan_name_dict |-> daily_plan_name_dict,
                          inputs |-> Range(HeldMap),
                          objects_before |-> HeldObjects, objects |-> r.objects,
                          raised |-> r.raised,
                          itinerary |-> IF r.raised = "no" THEN r.itinerary ELSE None]
              /\ UNCHANGED <<info_agent, travel_graph, state, threads>>

\* get_optimal_route called with a list of held objects: lines 97-183
\* store into the matrix, the cache and a new list only
RouteObjects ==
    /\ Warm
    /\ \E spots \in HeldLists :
          \E r \in get_optimal_route(distances_cache, contents(HeldObjects, spots)) :
              /\ distances_cache' = r.cache
              /\ call' = [op |-> "get_optimal_route", on |-> "objects",
                          inputs |-> Range(spots), spots_before |-> spots, spots |-> spots,
                          objects_before |-> HeldObjects, objects |-> HeldObjects,
                          raised |-> r.raised,
                          route |-> IF r.raised = "no"
                                    THEN refs_of(HeldObjects, spots, r.route) ELSE None]
              /\ UNCHANGED <<info_agent, travel_graph, state, threads>>

\* estimate_budget called with a list of held objects: lines 270-382 store
\* into local names and the dicts they build only
BudgetObjects ==
    /\ Warm
    /\ \E spots \in HeldLists, should_rent_car \in BOOLEAN :
          \E r \in estimate_budget(distances_cache, contents(HeldObjects, spots),
                                   [budget |-> [str |-> text_medium], people |-> 2, days |-> 1],
                                   should_rent_car, Some(Cars), Some(24), [answer |-> <<"2">>]) :
              /\ distances_cache' = r.cache
              /\ call' = [op |-> "estimate_budget", on |-> "objects",
                          inputs |-> Range(spots), spots_before |-> spots, spots |-> spots,
                          objects_before |-> HeldObjects, objects |-> HeldObjects,
                          raised |-> r.raised]
              /\ UNCHANGED <<info_agent, travel_graph, state, threads>>

NextObjects == FormatObjects \/ RouteObjects \/ BudgetObjects \/ Return

SpecObjects == InitAny /\ [][NextObjects]_vars

(***************************************************************************)
(* One session of TravelGraph, from the chat to the route step.            *)
(***************************************************************************)
\* the attractions the information step finds
TripAttractions == <<SpotAB, SpotC>>

\* what the chat step collects: the days of the trip, one traveller, the
\* budget low and a start date
TripInfos ==
    {[days |-> d, people |-> 1, budget |-> [str |-> text_low],
      start_date |-> [y |-> 2025, m |-> 2, d |-> 28]] : d \in 1..MaxTripDays}

\* day1, day2, ...
RECURSIVE decimal_text(_)
decimal_text(n) ==
    IF n < 10 THEN <<Digits[n + 1]>> ELSE decimal_text(n \div 10) \o <<Digits[(n % 10) + 1]>>

\* the plans the planner answers with: the keys day1 to dayN for some N,
\* the names of attractions of the trip under each
TripPlans ==
    UNION {PlansWithKeys([i \in 1..n |-> text_day \o decimal_text(i)],
                         {TripAttractions[i].name : i \in 1..Len(TripAttractions)}) :
              n \in 0..MaxPlanDays}

StepDone(step, result) ==
    call' = [op |-> "process_step", step |-> step, result |-> result]

\* the client asks for the route step last: the steps before it are
\* explored until a route step has stored a budget in the session
BeforeRoute == Warm /\ state.budget = <<>>

\* _process_chat, travel_graph.py:87-110, with _process_information,
\* lines 112-187, when the chat is complete and the city is found
ProcessChat ==
    /\ BeforeRoute
    /\ \E info \in TripInfos, complete \in BOOLEAN, found \in {<<>>, TripAttractions} :
          LET user_info == update(state.user_info, info)
              user_prefs == IF get(user_info, "start_date", [text |-> "not decided"])
                                  = [text |-> "not decided"]
                            THEN update(user_info, [start_date |-> days_after(Today, 7)])
                            ELSE user_info
          IN  IF complete
              THEN /\ state' = [state EXCEPT !.user_info = user_prefs, !.attractions = found]
                   /\ StepDone("chat", [next_step |-> "recommend"])
              ELSE /\ state' = [state EXCEPT !.user_info = user_info]
                   /\ StepDone("chat", [next_step |-> "chat"])
    /\ UNCHANGED <<distances_cache, info_agent, travel_graph, threads>>

\* _process_recommend, travel_graph.py:189-246, with the ids the user selected
ProcessRecommend ==
    /\ BeforeRoute
    /\ \E selected_attraction_ids \in
            SUBSET {TripAttractions[i].id : i \in 1..Len(TripAttractions)} :
          /\ selected_attraction_ids # {}
          /\ state' = [state EXCEPT !.selected_attractions =
                          SelectSeq(state.attractions,
                                    LAMBDA a : a.id \in selected_attraction_ids)]
          /\ StepDone("recommend", [next_step |-> "strategy"])
    /\ UNCHANGED <<distances_cache, info_agent, travel_graph, threads>>

\* main.py:146-147 and 174-201: next_step of the completion message that
\* the streaming endpoint sends after the step, from the result of
\* process_step and the state the step left
completion_next_step(step_name, user_input, result, current_state) ==
    LET satisfaction_message == user_input = "satisfied with your recommendation"
    IN  IF step_name = "strategy"
           /\ (current_state.ai_recommendation_generated \/ satisfaction_message)
        THEN IF current_state.should_rent_car THEN "communication" ELSE "route"
        ELSE result.next_step

\* the strategy step returns result to process_step, and the streaming
\* endpoint sends its completion message; the call keeps the input of the
\* step and the flag of the state as the step found it
StrategyDone(user_input, result) ==
    call' = [op |-> "process_step", step |-> "strategy", result |-> result,
             user_input |-> user_input,
             ai_recommendation_generated |-> state.ai_recommendation_generated,
             completion |-> [next_step |->
                 completion_next_step("strategy", user_input, result, state')]]

\* _process_strategy, travel_graph.py:248-374
ProcessStrategy ==
    /\ BeforeRoute
    /\ \E user_input \in {"here are my selected attractions",
                          "satisfied with your recommendation", "other"} :
          IF ~state.ai_recommendation_generated
             /\ user_input = "here are my selected attractions"
          THEN \E last_plan \in TripPlans, ai_should_rent_car \in BOOLEAN :
                  LET strategy_result ==
                          plan_remaining_time(state.selected_attractions,
                                              state.attractions, last_plan)
                  IN  /\ state' = [state EXCEPT
                             !.ai_recommendation_generated = TRUE,
                             !.attractions = strategy_result.additional_attractions,
                             !.daily_plan = strategy_result.daily_plan,
                             !.should_rent_car = ai_should_rent_car,
                             !.user_info = update(@, [should_rent_car |-> ai_should_rent_car])]
                      /\ StrategyDone(user_input, [next_step |-> "strategy"])
          ELSE IF state.ai_recommendation_generated
                  \/ user_input = "satisfied with your recommendation"
          THEN /\ state' = IF state.ai_recommendation_generated THEN state
                           ELSE [state EXCEPT !.should_rent_car = FALSE]
               /\ StrategyDone(user_input, [next_step |-> "route"])
          ELSE /\ state' = state
               /\ StrategyDone(user_input, [next_step |-> "strategy"])
    /\ UNCHANGED <<distances_cache, info_agent, travel_graph, threads>>

\* process_step("route"), travel_graph.py:74-85 and 439-542; the call keeps
\* what the booking confirmation did and the itinerary and budget of the
\* state as the step found them
ProcessRoute ==
    /\ Warm
    /\ \E confirmation \in {"text", "raised"} :
          \E r \in process_route(distances_cache, info_agent, state, confirmation) :
              /\ state' = r.state
              /\ distances_cache' = r.cache
              /\ call' = [op |-> "process_step", step |-> "route", result |-> r.result,
                          confirmation |-> confirmation,
                          itinerary_before |-> state.itinerary,
                          budget_before |-> state.budget]
    /\ UNCHANGED <<info_agent, travel_graph, threads>>

NextTrip == ProcessChat \/ ProcessRecommend \/ ProcessStrategy \/ ProcessRoute \/ Return

SpecTrip == InitAny /\ [][NextTrip]_vars

(***************************************************************************)
(* process_step called for several sessions on one TravelGraph,            *)
(* travel_graph.py:35-85.  The steps read and write the dict that          *)
(* self.state refers to at the moment of the access; a thread can be       *)
(* interrupted between two accesses.                                       *)
(***************************************************************************)
\* the dicts that can be reached from the TravelGraph
Live(graph) == {graph.state} \cup Range(graph.session_states)

\* the graph without the dicts that can no longer be reached
reachable(graph) ==
    [graph EXCEPT !.objects = [ref \in Live(graph) |-> graph.objects[ref]]]

\* a reference for a new dict, other than the given ones
new_ref(taken) == Min(Refs \ taken)

\* lines 35-46: the dict of the session, created when the id is new; the
\* outcome is the graph and the reference returned
get_session_state(graph, session_id) ==
    IF session_id \in DOMAIN graph.session_states
    THEN [graph |-> graph, ref |-> graph.session_states[session_id]]
    ELSE LET ref == new_ref(Live(graph))
         IN  [graph |-> [graph EXCEPT
                            !.session_states =
                                [sid \in DOMAIN graph.session_states \cup {session_id} |->
                                    IF sid = session_id THEN ref
                                    ELSE graph.session_states[sid]],
                            !.objects = [r \in DOMAIN graph.objects \cup {ref} |->
                                            IF r = ref THEN DefaultState
                                            ELSE graph.objects[r]]],
              ref |-> ref]

\* lines 52-53: self.state = self.get_session_state(session_id)
enter_step(graph, session_id) ==
    LET got == get_session_state(graph, session_id)
    IN  reachable([got.graph EXCEPT !.state = got.ref])

\* self.state[key] = value
set_state(graph, key, value) ==
    [graph EXCEPT !.objects[graph.state] = [@ EXCEPT ![key] = value]]

\* line 81: self.session_states[session_id] = self.state.copy()
save_state(graph, session_id) ==
    LET others == {graph.session_states[sid] :
                      sid \in DOMAIN graph.session_states \ {session_id}}
        ref == new_ref({graph.state} \cup others)
    IN  reachable([graph EXCEPT
                      !.session_states =
                          [sid \in DOMAIN graph.session_states \cup {session_id} |->
                              IF sid = session_id THEN ref ELSE graph.session_states[sid]],
                      !.objects = [r \in DOMAIN graph.objects \cup {ref} |->
                                      IF r = ref THEN graph.objects[graph.state]
                                      ELSE graph.objects[r]]])

\* lines 199-206: the attractions whose id was selected
selected_of(attractions, selected_attraction_ids) ==
    SelectSeq(attractions, LAMBDA a : a.id \in selected_attraction_ids)

\* the attractions get_attractions finds in the city of a session
CityAttractions == [Lima |-> <<SpotA, SpotAB>>, Oslo |-> <<SpotM>>]

\* the ids a client can send as selected
SelectedIds == {{SpotA.id}, {SpotM.id}, {SpotA.id, SpotAB.id}}

\* process_step("chat", session_id) served while no other request is
\* inside, the chat being complete: lines 48-57, _process_chat and
\* _process_information (user_info and attractions stored, lines 92 and
\* 172), line 81
ChatAlone ==
    /\ Warm
    /\ \E session_id \in SessionIds, city \in DOMAIN CityAttractions :
          /\ travel_graph' =
                save_state(
                    set_state(
                        set_state(enter_step(travel_graph, session_id),
                                  "user_info", [city |-> city]),
                        "attractions", CityAttractions[city]),
                    session_id)
          /\ call' = [op |-> "process_step", step |-> "chat", session_id |-> session_id,
                      result |-> [next_step |-> "recommend"]]
    /\ UNCHANGED <<distances_cache, info_agent, state, threads>>

\* the saved state of a session, that of a new session when it has none
saved_state(graph, session_id) ==
    IF session_id \in DOMAIN graph.session_states
    THEN graph.objects[graph.session_states[session_id]]
    ELSE DefaultState

\* every thread is handed process_step("recommend", session_id) with the
\* ids selected in its session
RecommendFromThreads ==
    /\ Warm
    /\ \E ids \in [Threads -> SelectedIds] :
          threads' = [t \in Threads |->
                         [pc |-> "line 53", session_id |-> t,
                          selected_attraction_ids |-> ids[t]]]
    /\ call' = [op |-> "process_step by threads", step |-> "recommend",
                saved_before |-> [sid \in SessionIds |-> saved_state(travel_graph, sid)]]
    /\ UNCHANGED <<distances_cache, info_agent, state, travel_graph>>

\* lines 52-53
EnterStep(t) ==
    /\ threads[t].pc = "line 53"
    /\ travel_graph' = enter_step(travel_graph, threads[t].session_id)
    /\ threads' = [threads EXCEPT ![t].pc = "line 193"]
    /\ UNCHANGED <<distances_cache, call, info_agent, state>>

\* line 193: attractions = self.state["attractions"]
ReadAttractions(t) ==
    /\ threads[t].pc = "line 193"
    /\ threads' = [threads EXCEPT ![t] =
                      [attractions |-> travel_graph.objects[travel_graph.state].attractions]
                          @@ [pc |-> "line 206"] @@ @]
    /\ UNCHANGED <<distances_cache, call, info_agent, state, travel_graph>>

\* lines 202-206: self.state["selected_attractions"] = selected_attractions
WriteSelected(t) ==
    /\ threads[t].pc = "line 206"
    /\ travel_graph' = set_state(travel_graph, "selected_attractions",
                                 selected_of(threads[t].attractions,
                                             threads[t].selected_attraction_ids))
    /\ threads' = [threads EXCEPT ![t].pc = "line 81"]
    /\ UNCHANGED <<distances_cache, call, info_agent, state>>

\* lines 81-85
SaveState(t) ==
    /\ threads[t].pc = "line 81"
    /\ travel_graph' = save_state(travel_graph, threads[t].session_id)
    /\ threads' = [threads EXCEPT ![t].pc = "return"]
    /\ UNCHANGED <<distances_cache, call, info_agent, state>>

NextSessions ==
    \/ ChatAlone
    \/ RecommendFromThreads
    \/ \E t \in Threads : EnterStep(t) \/ ReadAttractions(t) \/ WriteSelected(t) \/ SaveState(t)
    \/ Return

SpecSessions == Init /\ [][NextSessions]_vars

(***************************************************************************)
(* Properties of get_optimal_route and of the distance cache.              *)
(***************************************************************************)
Routed == call.op = "get_optimal_route" /\ call.raised = "no"

\* how often x occurs in the sequence s
Count(s, x) == Cardinality({i \in DOMAIN s : s[i] = x})

IsPermutationOf(route, spots) ==
    /\ Len(route) = Len(spots)
    /\ \A x \in Range(route) \cup Range(spots) : Count(route, x) = Count(spots, x)

\* C1: the route returned by get_optimal_route is a permutation of the
\* attraction list it was given: same length, every attraction as often
\* as in the input, whatever the length of the list.
C1_RouteIsPermutation ==
    Routed => IsPermutationOf(call.route, call.spots)

\* the position in spots of each stop of route, for spots without repeats
OrderOf(route, spots) ==
    [i \in 1..Len(route) |-> CHOOSE k \in 1..Len(spots) : spots[k] = route[i]]

\* reference: length of the open path through the nodes of order
RECURSIVE OpenPathLength(_, _)
OpenPathLength(order, matrix) ==
    IF Len(order) <= 1 THEN 0
    ELSE matrix[order[1]][order[2]] + OpenPathLength(Tail(order), matrix)

\* reference: every order of 1..n, as the one-to-one maps of 1..n
AllOrders(n) == {f \in [1..n -> 1..n] : \A i, j \in 1..n : i # j => f[i] # f[j]}

ColdCall(spots) == CHOOSE r \in get_optimal_route(EmptyCache, spots) : TRUE

\* C8: a call of get_optimal_route returns the ordering, and a route of the
\* total distance, that the same input yields on an empty cache, whatever
\* the cache held before the call.
C8_SameRouteWhateverCache ==
    (Routed /\ Len(call.spots) <= BruteForceLimit) =>
        /\ call.route = ColdCall(call.spots).route
        /\ route_legs(distances_cache, call.route, 1).distance
             = route_legs(ColdCall(call.spots).cache, ColdCall(call.spots).route, 1).distance

\* C9: in every cache state _calculate_distance(a, b) equals
\* _calculate_distance(b, a) for every two attractions.
C9_DistanceSymmetric ==
    \A a, b \in Catalogue :
        calculate_distance(distances_cache, a, b).distance
            = calculate_distance(distances_cache, b, a).distance

\* C10: the cache never holds more than one entry for an unordered pair
\* of attractions.
C10_OneEntryPerPair ==
    \A a, b \in Catalogue :
        (a # b /\ cache_key(a, b) \in DOMAIN distances_cache)
            => cache_key(b, a) \notin DOMAIN distances_cache

(***************************************************************************)
(* Properties of attractions without geodata.                              *)
(***************************************************************************)
\* the attraction has no location, or a location whose lat or lng is
\* absent or None
LacksCoordinates(spot) ==
    \/ ~HasLocation(spot)
    \/ {"lat", "lng"} \ DOMAIN spot.location # {}
    \/ None \in {spot.location.lat, spot.location.lng}

\* C11: when one of the two attractions lacks valid coordinates,
\* _calculate_distance raises nothing and returns the fallback distance,
\* and get_optimal_route returns an ordering of a list that holds such
\* attractions.
C11_MissingGeodataFallsBack ==
    /\ (call.op = "calculate_distance"
          /\ (LacksCoordinates(call.spot1) \/ LacksCoordinates(call.spot2)))
            => (call.raised = "no" /\ call.distance = DefaultDistance)
    /\ (call.op = "get_optimal_route"
          /\ \E i \in 1..Len(call.spots) : LacksCoordinates(call.spots[i]))
            => (call.raised = "no" /\ IsPermutationOf(call.route, call.spots))

(***************************************************************************)
(* Properties of the itinerary.                                            *)
(***************************************************************************)
Formatted == call.op = "format_daily_plan_to_itinerary" /\ call.raised = "no"

\* the estimated_duration values of the stops, summed (quarter hours)
RECURSIVE DurationSum(_)
DurationSum(spots) ==
    IF spots = <<>> THEN 0
    ELSE Head(spots).estimated_duration + DurationSum(Tail(spots))

\* C3: each day of the itinerary that format_daily_plan_to_itinerary
\* returns holds stops whose estimated_duration values sum to at most 8
\* hours, except a day whose only stop alone takes more than 8 hours.
C3_DayWithinEightHours ==
    Formatted =>
        \A i \in 1..Len(call.itinerary) :
            LET spots == call.itinerary[i].spots
            IN  \/ DurationSum(spots) <= 32
                \/ (Len(spots) = 1 /\ spots[1].estimated_duration > 32)

\* the names of the stops, in their order
NamesOf(spots) == [i \in 1..Len(spots) |-> spots[i].name]

\* C12: the stops of each day of the itinerary are the attractions named
\* for that day that the attraction map holds, each once, in some order.
C12_DayHoldsItsAttractions ==
    Formatted =>
        LET keys == sorted_day_keys(call.daily_plan_name_dict)
        IN  /\ Len(call.itinerary) = Len(keys)
            /\ \A i \in 1..Len(keys) :
                   IsPermutationOf(
                       NamesOf(call.itinerary[i].spots),
                       NamesOf(spot_objects_for(
                                   names_for_day(call.daily_plan_name_dict, keys[i]),
                                   call.all_spots_object_map)))

\* the minutes since midnight that a clock text HH:MM stands for
MinutesOf(clock) == clock.hh * 60 + clock.mm

\* C13: in every day of the itinerary the first stop starts at 09:00,
\* each later stop starts when the stop before it ends, and each stop ends
\* its estimated_duration after it starts.
C13_TimesFollowDurations ==
    Formatted =>
        \A d \in 1..Len(call.itinerary) :
            LET spots == call.itinerary[d].spots
            IN  \A i \in 1..Len(spots) :
                    /\ i = 1 => spots[i].start_time = [hh |-> 9, mm |-> 0]
                    /\ i > 1 => spots[i].start_time = spots[i - 1].end_time
                    /\ MinutesOf(spots[i].end_time)
                         = MinutesOf(spots[i].start_time) + 15 * spots[i].estimated_duration

\* C14: every start_time and end_time of the itinerary is a time of the
\* 24-hour clock: HH from 00 to 23, MM from 00 to 59.
C14_TimesOnTheClock ==
    Formatted =>
        \A d \in 1..Len(call.itinerary) :
            \A i \in 1..Len(call.itinerary[d].spots) :
                \A clock \in {call.itinerary[d].spots[i].start_time,
                               call.itinerary[d].spots[i].end_time} :
                    clock.hh \in 0..23 /\ clock.mm \in 0..59

(***************************************************************************)
(* Properties of the route step.                                           *)
(***************************************************************************)
RouteStepDone ==
    /\ call.op = "process_step"
    /\ call.step = "route"
    /\ call.result.next_step = "complete"

\* C4: the itinerary the route step returns never has more days than the
\* days of the trip in user_info.
C4_NoMoreDaysThanTrip ==
    RouteStepDone => Len(call.result.itinerary) <= get(state.user_info, "days", 1)

(***************************************************************************)
(* Properties of the budget.                                               *)
(***************************************************************************)
Budgeted == call.op = "estimate_budget"

Returned == Budgeted /\ call.result.raised = "no"

\* the call was given a text for a budget
HasBudgetText ==
    /\ Budgeted
    /\ "budget" \in DOMAIN call.user_prefs
    /\ "str" \in DOMAIN call.user_prefs.budget

TierNames == [low |-> text_low, medium |-> text_medium, high |-> text_high]

\* the per-day amounts of a tier in cents: accommodation, food, transport
TierFigures ==
    [low |-> <<5000, 3000, 1000>>, medium |-> <<10000, 6000, 2000>>,
     high |-> <<20000, 10000, 4000>>]

\* the fuel efficiency of a tier: 7.0, 8.5 and 10.0 litres per 100 km
TierEfficiency == [low |-> 14, medium |-> 17, high |-> 20]

\* the returned per-diem fields are those of the tier, for the days and
\* the people of the call
FiguresOf(tier) ==
    LET days == get(call.user_prefs, "days", 1)
        people == get(call.user_prefs, "people", 1)
        budget == call.result.budget
    IN  /\ budget.accommodation = TierFigures[tier][1] * days * people
        /\ budget.food = TierFigures[tier][2] * days * people
        /\ budget.transport = TierFigures[tier][3] * days * people

\* the returned fuel cost is that of the tier's efficiency over the
\* distance of the route of the call
FuelOf(tier) ==
    \E r \in get_optimal_route(call.cache_before, call.spots) :
        LET metres == route_legs(r.cache, r.route, 1).distance
            product == metres * TierEfficiency[tier] * call.fuel_price.some
        IN  call.result.budget.fuel_cost
                \in round2([cents |-> product \div 40000, part |-> product % 40000])

\* C5: when the budget preference is one of the texts low, medium and
\* high, the returned per-diem figures, and the fuel cost when a car is
\* rented, are those of the tier of that name.
C5_TierNameUsedDirectly ==
    \A tier \in DOMAIN TierNames :
        (Returned /\ HasBudgetText /\ call.user_prefs.budget.str = TierNames[tier])
            => /\ FiguresOf(tier)
               /\ call.should_rent_car => FuelOf(tier)

Dashes == {"-", EnDash}

\* the text without its dollar signs and commas
Cleaned(text) == SelectSeq(text, LAMBDA c : c # "$" /\ c # ",")

\* the part of the text before its first dash, the whole text if it has none
LowerBound(text) ==
    LET n == CHOOSE k \in 0..Len(text) :
                /\ \A i \in 1..k : text[i] \notin Dashes
                /\ (k = Len(text) \/ text[k + 1] \in Dashes)
    IN  SubSeq(text, 1, n)

\* the tier the claim gives a budget text
TierOfText(text) ==
    LET number == float_of(LowerBound(Cleaned(text)))
    IN  IF number = ValueError THEN "medium"
        ELSE IF number.special # "no" THEN "high"
        ELSE IF number.whole < 1000 THEN "low"
        ELSE IF number.whole < 3000 THEN "medium"
        ELSE "high"

\* C6: for a budget text that is no tier name the budget is that of the
\* tier of the number left after dropping '$' and ',' and keeping the part
\* before the first dash (below 1000 low, below 3000 medium, else high);
\* a text that is no number gives medium, and the call raises nothing.
C6_BudgetTextClassified ==
    (HasBudgetText /\ call.user_prefs.budget.str
                        \notin {TierNames[t] : t \in DOMAIN TierNames}) =>
        /\ ~call.should_rent_car => Returned
        /\ Returned => FiguresOf(TierOfText(call.user_prefs.budget.str))

\* a text with a dollar sign and a range whose lower bound makes it low
C6_Witness ==
    /\ Returned /\ HasBudgetText
    /\ "$" \in Range(call.user_prefs.budget.str)
    /\ "-" \in Range(call.user_prefs.budget.str)
    /\ "1" \in Range(LowerBound(call.user_prefs.budget.str))
    /\ call.result.budget.accommodation = 5000

\* the six fields of the budget next to total, summed (cents)
SumOfFields(budget) ==
    budget.accommodation + budget.food + budget.transport
        + budget.attractions + budget.car_rental + budget.fuel_cost

PriceOfLevel == [level \in 0..4 |->
                    CASE level = 0 -> 0 [] level = 1 -> 1000 [] level = 2 -> 2000
                      [] level = 3 -> 3000 [] level = 4 -> 5000]

\* reference: the amounts of the attractions from position i on, summed
RECURSIVE PriceSum(_, _)
PriceSum(spots, i) ==
    IF i > Len(spots) THEN 0 ELSE PriceOfLevel[spots[i].price_level] + PriceSum(spots, i + 1)

C18_NoExceptionWithCar ==
    (Budgeted /\ call.should_rent_car) => Returned

BudgetFields ==
    {"total", "accommodation", "food", "transport", "attractions", "car_rental", "fuel_cost"}

\* C19: with no attractions, estimate_budget returns a budget of the
\* seven fields whose attractions cost is 0, and the route step completes
\* with an empty itinerary and such a budget.
C19_EmptyInput ==
    /\ (Budgeted /\ call.spots = <<>>) =>
            /\ ~call.should_rent_car => Returned
            /\ Returned => /\ DOMAIN call.result.budget = BudgetFields
                           /\ call.result.budget.attractions = 0
    /\ (call.op = "process_step" /\ call.step = "route" /\ state.attractions = <<>>) =>
            /\ call.result.next_step = "complete"
            /\ call.result.itinerary = <<>>
            /\ DOMAIN call.result.budget = BudgetFields
            /\ call.result.budget.attractions = 0

(***************************************************************************)
(* Threads on one cache.                                                   *)
(***************************************************************************)
\* every thread has reached the return of _calculate_distance
ThreadsReturned ==
    /\ call # NoCall
    /\ call.op = "calculate_distance by threads"
    /\ \A t \in Threads : threads[t].pc = "return"

\* what the threads get when their calls run one after the other, in the
\* given order, from the given cache
RECURSIVE SequentialRun(_, _)
SequentialRun(cache, order) ==
    IF order = <<>> THEN <<>>
    ELSE LET r == calculate_distance(cache, threads[Head(order)].spot1,
                                     threads[Head(order)].spot2)
         IN  <<r>> \o SequentialRun(r.cache, Tail(order))

\* the thread got what the sequential call got
SameOutcome(t, r) ==
    /\ threads[t].raised = r.raised
    /\ r.raised = "no" => threads[t].distance = r.distance

\* C20: when several threads call the distance lookup on one cache at the
\* same time, whatever the interleaving of the reads and the inserts, every
\* call returns the distance that a run of the same calls one after the
\* other returns
C20_RaceOnlyRecomputes ==
    ThreadsReturned =>
        \E order \in DistinctSeqs(Threads, MaxThreads, MaxThreads) :
            LET run == SequentialRun(call.cache_before, order)
            IN  \A i \in 1..MaxThreads : SameOutcome(order[i], run[i])

(***************************************************************************)
(* Ties between orders of equal total distance.                            *)
(***************************************************************************)
\* order p comes before order q in the lexicographic order of the index
\* permutations
LexBefore(p, q) ==
    \E k \in 1..Len(p) :
        /\ \A i \in 1..(k - 1) : p[i] = q[i]
        /\ p[k] < q[k]

\* the orders among those of the given lengths whose length is the least
ShortestOf(lengths) ==
    {t[1] : t \in {u \in lengths : \A v \in lengths : u[2] <= v[2]}}

\* the orders of the stops whose open-path length is the least
ShortestOrders(n, matrix) ==
    ShortestOf({<<f, OpenPathLength(f, matrix)>> : f \in AllOrders(n)})

\* C21: for 2 to 5 stops, of the orders whose total distance is the least
\* get_optimal_route returns the one that comes first in the lexicographic
\* enumeration of the index permutations of the input.
C21_FirstShortestOrderWins ==
    (Routed /\ Len(call.spots) \in 2..BruteForceLimit) =>
        LET shortest == ShortestOrders(Len(call.spots), call.matrix)
            order    == OrderOf(call.route, call.spots)
        IN  /\ order \in shortest
            /\ \A g \in shortest \ {order} : LexBefore(order, g)

\* a call on five stops with several shortest orders, the first of which
\* is not the order the stops came in
C21_Witness ==
    /\ Routed
    /\ Len(call.spots) = BruteForceLimit
    /\ Cardinality(ShortestOrders(Len(call.spots), call.matrix)) >= 2
    /\ call.route # call.spots

(***************************************************************************)
(* The attraction records handed to the methods.                           *)
(***************************************************************************)
OnObjects ==
    /\ call # NoCall
    /\ "on" \in DOMAIN call
    /\ call.on = "objects"

\* C22: get_optimal_route, format_daily_plan_to_itinerary and
\* estimate_budget leave every attraction record they are handed as it
\* was, and the list they are handed keeps its order and contents; the
\* stops of a returned itinerary, which carry start_time and end_time, are
\* other objects than the records handed in.
C22_InputsUnchanged ==
    OnObjects =>
        /\ Len(call.objects) >= Len(call.objects_before)
        /\ \A ref \in 1..Len(call.objects_before) :
              call.objects[ref] = call.objects_before[ref]
        /\ "spots" \in DOMAIN call => call.spots = call.spots_before
        /\ (call.op = "format_daily_plan_to_itinerary" /\ call.raised = "no") =>
              \A d \in 1..Len(call.itinerary) :
                  \A i \in 1..Len(call.itinerary[d].spots) :
                      /\ call.itinerary[d].spots[i] \notin call.inputs
                      /\ "start_time" \in DOMAIN call.objects[call.itinerary[d].spots[i]]

\* an itinerary of two days whose first day holds two stops with their times
C22_Witness ==
    /\ OnObjects
    /\ call.op = "format_daily_plan_to_itinerary"
    /\ call.raised = "no"
    /\ Len(call.itinerary) = 2
    /\ Len(call.itinerary[1].spots) = 2
    /\ Len(call.objects) > Len(call.objects_before)

(***************************************************************************)
(* The step after the strategy step.                                       *)
(***************************************************************************)
\* a strategy step that found the recommendations generated, or that was
\* handed a satisfaction confirmation
StrategySettled ==
    /\ call # NoCall
    /\ call.op = "process_step"
    /\ call.step = "strategy"
    /\ \/ call.ai_recommendation_generated
       \/ call.user_input = "satisfied with your recommendation"

\* C23: once the strategy step has generated recommendations or received a
\* satisfaction confirmation, the next step reported to the client is
\* route and never communication, whatever should_rent_car is, in the
\* result of process_step and in the completion message of the streaming
\* endpoint.
C23_AlwaysOnToRoute ==
    StrategySettled =>
        /\ call.result.next_step = "route"
        /\ call.completion.next_step = "route"

(***************************************************************************)
(* What plan_remaining_time hands to the strategy step.                    *)
(***************************************************************************)
\* the strategy step has called plan_remaining_time and stored its
\* additional_attractions and its daily_plan in the state
Planned ==
    /\ call # NoCall
    /\ call.op = "process_step"
    /\ call.step = "strategy"
    /\ ~call.ai_recommendation_generated
    /\ call.user_input = "here are my selected attractions"

\* the names under the day keys of a plan
NamesInPlan(daily_plan) == UNION {Range(daily_plan[i].names) : i \in 1..Len(daily_plan)}

\* C25: whenever plan_remaining_time returns a daily_plan that is not
\* empty, the name of every pre-selected attraction stands under some day
\* of it, and every attraction it names has its record in the returned
\* additional_attractions, whatever the planning attempts gave.
C25_PlanAgreesWithAttractions ==
    (Planned /\ state.daily_plan # <<>>) =>
        /\ \A i \in 1..Len(state.selected_attractions) :
              state.selected_attractions[i].name \in NamesInPlan(state.daily_plan)
        /\ \A name \in NamesInPlan(state.daily_plan) :
              \E i \in 1..Len(state.attractions) : state.attractions[i].name = name

(***************************************************************************)
(* estimate_budget without a car.                                          *)
(***************************************************************************)
\* C24: when no car is rented, estimate_budget returns car_rental 0 and
\* fuel_cost 0 and a total that is the per-diem costs plus the attraction
\* costs, and it leaves the distance cache as it was: no route is computed.
C24_NoCarNoRoute ==
    (Budgeted /\ ~call.should_rent_car) =>
        /\ Returned
        /\ call.result.budget.car_rental = 0
        /\ call.result.budget.fuel_cost = 0
        /\ call.result.budget.total =
              call.result.budget.accommodation + call.result.budget.food
                  + call.result.budget.transport + call.result.budget.attractions
        /\ distances_cache = call.cache_before

\* a budget without a car for three attractions, asked of an object whose
\* cache already holds a distance
C24_Witness ==
    /\ Returned
    /\ ~call.should_rent_car
    /\ Len(call.spots) = 3
    /\ call.result.budget.attractions > 0
    /\ call.cache_before # EmptyCache

(***************************************************************************)
(* The route step.                                                         *)
(***************************************************************************)
RouteStep ==
    /\ call # NoCall
    /\ call.op = "process_step"
    /\ call.step = "route"

\* the state holds a planned attraction and a start date of the calendar
ReadyForRoute ==
    /\ Len(state.attractions) >= 1
    /\ "start_date" \in DOMAIN state.user_info
    /\ IsDateText(state.user_info.start_date)

\* C26: whenever the route step runs with at least one planned attraction
\* and a valid start date, and the confirmation text is obtained, it ends
\* with next_step complete and a budget, without a car and with one; with
\* a car the budget holds a car_rental and a fuel_cost.
C26_RouteStepCompletes ==
    (RouteStep /\ ReadyForRoute /\ call.confirmation = "text") =>
        /\ call.result.next_step = "complete"
        /\ {"total", "car_rental", "fuel_cost"} \subseteq DOMAIN call.result.budget
        /\ state.should_rent_car => call.result.budget.car_rental > 0

\* C27: if the route step returns next_step error, the itinerary and the
\* budget of the session state are those from before the step.
C27_ErrorLeavesStateAlone ==
    (RouteStep /\ call.result.next_step = "error") =>
        /\ state.itinerary = call.itinerary_before
        /\ state.budget = call.budget_before

(***************************************************************************)
(* Day numbers and dates of an itinerary.                                  *)
(***************************************************************************)
\* reference: the date n days after a date
RECURSIVE DatePlus(_, _)
DatePlus(date, n) == IF n = 0 THEN date ELSE DatePlus(next_day(date), n - 1)

\* C28: in every itinerary returned by format_daily_plan_to_itinerary the
\* day numbers are distinct and strictly increasing, and the entry of day
\* number N carries the date start_date + (N - 1) days, whatever dayN keys
\* the plan holds (gaps such as day1 and day3, keys such as day01).
C28_DayNumbersAndDates ==
    (Formatted /\ "on" \notin DOMAIN call /\ IsDateText(call.start_date_str)) =>
        /\ \A i, j \in 1..Len(call.itinerary) :
              i < j => call.itinerary[i].day < call.itinerary[j].day
        /\ \A i \in 1..Len(call.itinerary) :
              call.itinerary[i].date
                  = DatePlus(call.start_date_str, call.itinerary[i].day - 1)

(***************************************************************************)
(* get_optimal_route applied to its own output.                            *)
(***************************************************************************)
\* C29: for 2 to 5 stops, get_optimal_route applied to the route it
\* returned returns that route in the same order.
C29_OptimizeIsIdempotent ==
    (Routed /\ "first_route" \in DOMAIN call
            /\ Len(call.spots) \in 2..BruteForceLimit) =>
        call.route = call.first_route

(***************************************************************************)
(* Sessions on one TravelGraph.                                            *)
(***************************************************************************)
\* every thread has reached the return of its process_step
SessionsReturned ==
    /\ call # NoCall
    /\ call.op = "process_step by threads"
    /\ \A t \in Threads : threads[t].pc = "return"

\* what the step of thread t stores when it runs alone: the saved state of
\* its session with the selection made among the session's attractions
OwnUpdate(t) ==
    LET before == call.saved_before[threads[t].session_id]
    IN  [before EXCEPT !.selected_attractions =
            SelectSeq(before.attractions,
                      LAMBDA a : a.id \in threads[t].selected_attraction_ids)]

\* C30: when two process_step calls for different session ids interleave
\* on one TravelGraph, the state saved for each session holds the updates
\* of its own step only, and a step reads the state of its own session
\* only.
C30_SessionsKeptApart ==
    SessionsReturned =>
        \A t \in Threads :
            /\ threads[t].attractions = call.saved_before[threads[t].session_id].attractions
            /\ saved_state(travel_graph, threads[t].session_id) = OwnUpdate(t)

====
